---- MODULE Spec2Model ----
(***************************************************************************)
(* State-machine model of the IC simulator core (CjieSun/NewICD):          *)
(*   - interrupt_manager.c : the IRQ table (g_interrupt_bindings)          *)
(*   - sim_interface.c     : the address map, the signal map, the SIGSEGV  *)
(*                           trap engine and the interrupt signal handler  *)
(*   - plugin_manager.c    : find_plugin / handle_sim_message              *)
(*   - uart_plugin.c       : the register file of a UART instance          *)
(*                                                                         *)
(* Two specifications share the variables:                                 *)
(*   SpecIrq  : IRQ table + signal map + POSIX signal delivery on threads  *)
(*   SpecTrap : address map + trapped loads/stores of the driver thread    *)
(***************************************************************************)
EXTENDS Integers, Sequences, FiniteSets, TLC

(***************************************************************************)
(* Program constants (values of the source).                               *)
(***************************************************************************)
MAX_INTERRUPTS == 32
MAX_SIGNAL_MAPPINGS == 16
MAX_REG_MAPPINGS == 32
MAX_PLUGINS == 32

(***************************************************************************)
(* Bounds of the model.                                                    *)
(***************************************************************************)
\* live (non-filler) signal bindings the model adds
MaxSigAdds == 2
\* trigger_interrupt calls that find a binding, in all
MaxTriggers == 2
\* ranges the model adds to the address map
MaxRegAdds == 2
\* faults the trap engine services (ids 1..MaxFaults)
MaxFaults == 2
\* plugins the model registers under the names of PluginNames
MaxPlugAdds == 3
\* operations the host calls on the UART plugin
MaxUartOps == 3
\* seconds the UART monitor thread runs
MaxCycles == 15
MaxDmaChannels == 2
MaxDmaOps == 3
MaxBuf == 2
MaxDrvOps == 3
MaxRequests == 4

(***************************************************************************)
(* Input domains.                                                          *)
(***************************************************************************)
\* IRQ numbers the driver uses (UART TX = 5, UART RX = 6)
Irqs == {5, 6}
\* handler function pointers; "NULL" is the null pointer
Handlers == {"NULL", "h1", "h2"}
\* real-time signal numbers (SIGRTMIN = 34): instances of them queue
Signals == {34, 35}
Modules == {"uart0"}
\* names of the plugin objects handed to register_plugin
PluginNames == {"uart0", "uart1", "dma0"}
\* threads of the process: the driver thread and a plugin worker thread.
\* Neither blocks any signal, so a process-directed signal may be handled
\* by either.
Threads == {"main", "worker"}

VARIABLES
    \* interrupt_manager.c
    g_interrupt_bindings,   \* the IRQ table; g_interrupt_count is its length
    \* sim_interface.c
    g_signal_mappings,      \* the signal map; g_signal_mapping_count is its length
    \* POSIX signal state of the process
    sig_pending,            \* [Signals -> Nat]: queued instances of each signal
    sig_frames,             \* [Threads -> Seq(frame)]: handler frames on each thread
    \* observation of the run
    rv,                     \* the value the last table operation returned
    triggered,              \* [Irqs -> Nat]: trigger_interrupt calls that found a binding
    invoked,                \* [Irqs -> Nat]: handler invocations begun
    disturbed               \* [Irqs -> BOOLEAN]: the IRQ was triggered while it had no
                            \* enabled handler, or was disabled at some time

VARIABLES
    \* sim_interface.c
    g_reg_mappings,         \* the address map; g_reg_mapping_count is its length
    g_msg_id_counter,       \* the id the next request gets
    fault_tmp,              \* [Threads -> the value of g_msg_id_counter a thread inside
                            \* g_msg_id_counter++ has loaded and not yet stored; 0: none]
    \* observation of the run
    msg_ids,                \* the ids of the requests constructed, in order
    \* plugin_manager.c / uart_plugin.c
    g_plugins,              \* names of the registered plugins, in registration order
    uart_priv,              \* uart_private_t of plugin "uart0"
    \* the driver thread
    drv,                    \* "run": executing; "resumed": the SIGSEGV handler has just
                            \* returned; "exited": exit() was called; "derailed": resumed
                            \* inside an instruction
    exit_code,              \* the argument of exit()
    rip,                    \* uc_mcontext.gregs[REG_RIP]
    gregs,                  \* uc_mcontext.gregs of the general-purpose registers
    trap                    \* the fault last serviced: the instruction, the address,
                            \* the request and the response (NoTrap once the driver moved on)

VARIABLES
    \* plugin_manager.c
    cleanup_log,            \* names of the plugins whose cleanup the last
                            \* cleanup_plugins called, in call order
    \* uart_plugin.c, instance uart0
    uart_thread,            \* uart_monitor_thread: its position, its cycle_count, the
                            \* number of bytes it has appended, and whether the UART
                            \* has stayed enabled since it started
    uart_host,              \* the thread calling the plugin: "idle" between operations,
                            \* "join" inside pthread_join, "cleaned" after uart_cleanup
    uart_ret,               \* the last plugin operation and the value it returned
    uart_irqs,              \* [Irqs -> Nat]: trigger_interrupt calls of the plugin
    uart_ops,               \* plugin operations called so far
    after_reset             \* reset(Assert) has returned and no worker was started since

irqVars == <<g_interrupt_bindings, g_signal_mappings, sig_pending, sig_frames,
             rv, triggered, invoked, disturbed>>

trapVars == <<g_reg_mappings, g_msg_id_counter, fault_tmp, msg_ids, g_plugins, uart_priv,
              drv, exit_code, rip, gregs, trap>>

plugVars == <<cleanup_log, uart_thread, uart_host, uart_ret, uart_irqs, uart_ops,
              after_reset>>

VARIABLES
    \* dma_plugin.c, instance dma0
    dma_priv,               \* dma_private_t of plugin "dma0"
    dma_thread,             \* dma_monitor_thread: its position and the channel index i
                            \* of its for loop
    dma_host,               \* the thread calling the plugin: "idle" between operations,
                            \* "reset_join" and "cleanup_join" inside pthread_join,
                            \* "cleaned" once cleanup has set private_data to NULL
    dma_ret,                \* the last plugin operation and the value it returned
    dma_irqs,               \* the trigger_interrupt calls of the plugin, in call order
    dma_ops,                \* plugin operations called so far
    \* observation of the run
    dma_xfer,               \* [channel -> the transfer in progress]: the size it was
                            \* enabled with, the amounts moved by each tick, and
                            \* whether the channel was rewritten since
    dma_written,            \* the address of the last register write and, for each
                            \* channel register, the value last written to it (-1
                            \* when none, or when a reset or a tick came after it)
    mem                     \* the driver's memory: [address -> byte]

VARIABLES
    \* dma_driver.c
    g_dma_channels,         \* [channel -> allocated, busy]
    g_dma_handles,          \* [channel -> State, Lock, ErrorCode of the HAL handle]
    tick_counter,           \* the static counter of HAL_GetTick
    drv_poll,               \* the HAL_DMA_PollForTransfer in progress: its channel,
                            \* Timeout and tickstart (pc "none" outside the loop)
    drv_ret,                \* the last driver call, its channel, the handle's State
                            \* when it was called, and the value it returned
    drv_cfg,                \* the dma_config_t last passed to dma_configure_channel
    drv_ops                 \* driver calls so far

drvVars == <<g_dma_channels, g_dma_handles, tick_counter, drv_poll, drv_ret, drv_cfg,
             drv_ops>>

dmaVars == <<dma_priv, dma_thread, dma_host, dma_ret, dma_irqs, dma_ops, dma_xfer,
             dma_written, mem, drvVars>>

vars == <<irqVars, trapVars, plugVars, dmaVars>>

g_interrupt_count == Len(g_interrupt_bindings)
g_signal_mapping_count == Len(g_signal_mappings)

(***************************************************************************)
(* Tables as other parts of the program may have left them: IRQ numbers,   *)
(* signal numbers and modules that the operations below never name.        *)
(***************************************************************************)
OtherBindings(n) ==
    [k \in 1..n |-> [irq_num |-> 100 + k, handler |-> "h1", enabled |-> 1]]

OtherSignalMappings(n) ==
    [k \in 1..n |-> [signal_num |-> 40 + k, module |-> "dma0", irq_num |-> 100 + k]]

(***************************************************************************)
(* interrupt_manager.c                                                     *)
(***************************************************************************)
\* the index of the first entry for irq_num, 0 when there is none:
\* for (i = 0; i < g_interrupt_count; i++) if (bindings[i].irq_num == irq_num)
FindBinding(irq_num) ==
    LET hits == {i \in 1..g_interrupt_count : g_interrupt_bindings[i].irq_num = irq_num}
    IN  IF hits = {} THEN 0 ELSE CHOOSE i \in hits : \A j \in hits : i <= j

MainFree == sig_frames["main"] = <<>>

register_interrupt_handler(irq_num, handler) ==
    /\ MainFree
    /\ LET i == FindBinding(irq_num) IN
       IF g_interrupt_count >= MAX_INTERRUPTS THEN
            /\ rv' = -1
            /\ UNCHANGED g_interrupt_bindings
       ELSE IF handler = "NULL" THEN
            /\ rv' = -1
            /\ UNCHANGED g_interrupt_bindings
       ELSE IF i /= 0 THEN
            /\ g_interrupt_bindings' =
                 [g_interrupt_bindings EXCEPT ![i].handler = handler, ![i].enabled = 1]
            /\ rv' = 0
       ELSE
            /\ g_interrupt_bindings' =
                 Append(g_interrupt_bindings,
                        [irq_num |-> irq_num, handler |-> handler, enabled |-> 1])
            /\ rv' = 0
    /\ UNCHANGED <<g_signal_mappings, sig_pending, sig_frames, triggered, invoked, disturbed>>
    /\ UNCHANGED <<trapVars, plugVars, dmaVars>>

enable_interrupt(irq_num) ==
    /\ MainFree
    /\ LET i == FindBinding(irq_num) IN
       IF i /= 0 THEN
            /\ g_interrupt_bindings' = [g_interrupt_bindings EXCEPT ![i].enabled = 1]
            /\ rv' = 0
       ELSE
            /\ rv' = -1
            /\ UNCHANGED g_interrupt_bindings
    /\ UNCHANGED <<g_signal_mappings, sig_pending, sig_frames, triggered, invoked, disturbed>>
    /\ UNCHANGED <<trapVars, plugVars, dmaVars>>

disable_interrupt(irq_num) ==
    /\ MainFree
    /\ LET i == FindBinding(irq_num) IN
       IF i /= 0 THEN
            /\ g_interrupt_bindings' = [g_interrupt_bindings EXCEPT ![i].enabled = 0]
            /\ disturbed' = [disturbed EXCEPT ![irq_num] = TRUE]
            /\ rv' = 0
       ELSE
            /\ rv' = -1
            /\ UNCHANGED <<g_interrupt_bindings, disturbed>>
    /\ UNCHANGED <<g_signal_mappings, sig_pending, sig_frames, triggered, invoked>>
    /\ UNCHANGED <<trapVars, plugVars, dmaVars>>

(***************************************************************************)
(* sim_interface.c: the signal map and the interrupt path                  *)
(***************************************************************************)
\* model bound: the bindings added for the signals of the model
LiveSignalMappings ==
    Cardinality({k \in 1..g_signal_mapping_count : g_signal_mappings[k].signal_num \in Signals})

add_signal_mapping(signal_num, module, irq_num) ==
    /\ MainFree
    /\ LiveSignalMappings < MaxSigAdds
    /\ IF g_signal_mapping_count >= MAX_SIGNAL_MAPPINGS THEN
            UNCHANGED g_signal_mappings
       ELSE
            \* signal(signal_num, interrupt_signal_handler) installs the one handler
            g_signal_mappings' =
                Append(g_signal_mappings,
                       [signal_num |-> signal_num, module |-> module, irq_num |-> irq_num])
    /\ UNCHANGED <<g_interrupt_bindings, sig_pending, sig_frames, rv,
                   triggered, invoked, disturbed>>
    /\ UNCHANGED <<trapVars, plugVars, dmaVars>>

\* trigger_interrupt's scan: the first binding of (module, irq_num), 0 when none
FindSignalMapping(module, irq_num) ==
    LET hits == {k \in 1..g_signal_mapping_count :
                    /\ g_signal_mappings[k].module = module
                    /\ g_signal_mappings[k].irq_num = irq_num}
    IN  IF hits = {} THEN 0 ELSE CHOOSE k \in hits : \A j \in hits : k <= j

\* interrupt_signal_handler's scan: the first binding of sig, 0 when none
ResolveSignal(sig) ==
    LET hits == {k \in 1..g_signal_mapping_count : g_signal_mappings[k].signal_num = sig}
    IN  IF hits = {} THEN 0 ELSE CHOOSE k \in hits : \A j \in hits : k <= j

IrqLive(irq_num) ==
    LET i == FindBinding(irq_num)
    IN  /\ i /= 0
        /\ g_interrupt_bindings[i].handler /= "NULL"
        /\ g_interrupt_bindings[i].enabled /= 0

RECURSIVE SumOver(_, _)
SumOver(f, S) ==
    IF S = {} THEN 0
    ELSE LET x == CHOOSE y \in S : TRUE IN f[x] + SumOver(f, S \ {x})

TotalTriggered == SumOver(triggered, Irqs)

\* kill(getpid(), signal_num): one more instance of a real-time signal is queued
\* for the process. Called by a thread that is not inside a handler.
trigger_interrupt(module, irq_num) ==
    /\ \E t \in Threads : sig_frames[t] = <<>>
    /\ TotalTriggered < MaxTriggers
    /\ LET k == FindSignalMapping(module, irq_num) IN
       IF k /= 0 THEN
            /\ sig_pending' = [sig_pending EXCEPT
                                 ![g_signal_mappings[k].signal_num] = @ + 1]
            /\ triggered' = [triggered EXCEPT ![irq_num] = @ + 1]
            /\ disturbed' = [disturbed EXCEPT ![irq_num] = @ \/ ~IrqLive(irq_num)]
       ELSE
            UNCHANGED <<sig_pending, triggered, disturbed>>
    /\ UNCHANGED <<g_interrupt_bindings, g_signal_mappings, sig_frames, rv,
                   invoked>>
    /\ UNCHANGED <<trapVars, plugVars, dmaVars>>

\* A thread blocks sig while it runs the handler of sig (signal() installs
\* the handler with BSD semantics: sa_mask = {sig}, no SA_NODEFER).
Blocked(t, sig) == \E n \in 1..Len(sig_frames[t]) : sig_frames[t][n].sig = sig

\* handle_interrupt(irq_num) up to its test of .enabled and .handler:
\* the index of the entry whose handler it goes on to call, 0 when it returns
\* without calling one (not found, disabled, or no handler).
handle_interrupt(irq_num) ==
    LET i == FindBinding(irq_num) IN
    IF i = 0 THEN 0
    ELSE IF g_interrupt_bindings[i].enabled = 0 THEN 0
    ELSE IF g_interrupt_bindings[i].handler = "NULL" THEN 0
    ELSE i

\* The kernel delivers a pending signal to a thread that does not block it;
\* interrupt_signal_handler resolves it to an IRQ and enters handle_interrupt.
interrupt_signal_handler(t, sig) ==
    /\ sig_pending[sig] > 0
    /\ ~Blocked(t, sig)
    /\ sig_pending' = [sig_pending EXCEPT ![sig] = @ - 1]
    /\ LET k == ResolveSignal(sig) IN
       IF k = 0 THEN UNCHANGED sig_frames
       ELSE LET irq == g_signal_mappings[k].irq_num
                i   == handle_interrupt(irq) IN
            IF i = 0 THEN UNCHANGED sig_frames
            ELSE sig_frames' = [sig_frames EXCEPT ![t] =
                     Append(@, [sig |-> sig, irq |-> irq, idx |-> i, pc |-> "call"])]
    /\ UNCHANGED <<g_interrupt_bindings, g_signal_mappings, rv,
                   triggered, invoked, disturbed>>
    /\ UNCHANGED <<trapVars, plugVars, dmaVars>>

\* g_interrupt_bindings[i].handler(): the handler's first instruction
HandlerCall(t) ==
    /\ sig_frames[t] /= <<>>
    /\ LET n == Len(sig_frames[t])
           f == sig_frames[t][n] IN
       /\ f.pc = "call"
       /\ sig_frames' = [sig_frames EXCEPT ![t][n].pc = "running"]
       /\ invoked' = [invoked EXCEPT ![f.irq] = @ + 1]
    /\ UNCHANGED <<g_interrupt_bindings, g_signal_mappings, sig_pending, rv,
                   triggered, disturbed>>
    /\ UNCHANGED <<trapVars, plugVars, dmaVars>>

\* the handler returns, and with it handle_interrupt and interrupt_signal_handler
HandlerReturn(t) ==
    /\ sig_frames[t] /= <<>>
    /\ LET n == Len(sig_frames[t]) IN
       /\ sig_frames[t][n].pc = "running"
       /\ sig_frames' = [sig_frames EXCEPT ![t] = SubSeq(@, 1, n - 1)]
    /\ UNCHANGED <<g_interrupt_bindings, g_signal_mappings, sig_pending, rv,
                   triggered, invoked, disturbed>>
    /\ UNCHANGED <<trapVars, plugVars, dmaVars>>

(***************************************************************************)
(* The driver's instruction stream (x86-64, as gcc -O0 emits it for        *)
(* volatile uint32_t accesses).  An instruction is the sequence of its     *)
(* bytes: opcode, ModRM, an optional 8-bit displacement, an optional       *)
(* 32-bit immediate.  Its length is the length of the sequence.            *)
(***************************************************************************)
ModRMByte(mod, reg, rm) == mod * 64 + reg * 8 + rm
ModRM_mod(b) == b \div 64
ModRM_reg(b) == (b \div 8) % 8
ModRM_rm(b) == b % 8

\* the general-purpose register a ModRM reg field names
GPR(r) == CASE r = 0 -> "RAX" [] r = 1 -> "RCX" [] r = 2 -> "RDX" [] OTHER -> "RBX"

\* little-endian bytes of a 32-bit value, and back
LE32Bytes(v) == <<v % 256, (v \div 256) % 256, (v \div 65536) % 256, (v \div 16777216) % 256>>
LE32(b, k) == b[k] + 256 * b[k + 1] + 65536 * b[k + 2] + 16777216 * b[k + 3]

\* the displacement byte of the [reg + disp8] forms (0x48: the DMACR offset)
Disp(mod) == IF mod = 1 THEN <<72>> ELSE <<>>

\* 8B /r : mov r/m32 -> r32        (8b 00 = mov (%rax),%eax ; 8b 50 48 = mov 0x48(%rax),%edx)
Load32(mod, reg) == <<139, ModRMByte(mod, reg, 0)>> \o Disp(mod)
\* 89 /r : mov r32 -> r/m32        (89 10 = mov %edx,(%rax))
StoreReg32(mod, reg) == <<137, ModRMByte(mod, reg, 0)>> \o Disp(mod)
\* C7 /0 id : mov imm32 -> r/m32   (c7 00 41 00 00 00 = movl $0x41,(%rax))
StoreImm32(mod, imm) == <<199, ModRMByte(mod, 0, 0)>> \o Disp(mod) \o LE32Bytes(imm)
\* 88 /r : mov r8 -> r/m8          (88 10 = mov %dl,(%rax))
StoreReg8 == <<136, ModRMByte(0, 2, 0)>>
\* 0F B6 /r : movzx r/m8 -> r32    (0f b6 00 = movzbl (%rax),%eax)
LoadZx8 == <<15, 182, ModRMByte(0, 0, 0)>>

\* values the driver computes and stores (below 2^31: every value of the
\* model is its own sign extension from 32 to 64 bits)
Values == {1, 65}

Insns ==
    {Load32(mod, reg) : mod \in {0, 1}, reg \in {0, 2}}
    \cup {StoreReg32(mod, reg) : mod \in {0, 1}, reg \in {0, 2}}
    \cup {StoreImm32(mod, 65) : mod \in {0, 1}}
    \cup {StoreReg8, LoadZx8}

\* where the driver's memory-mapped access instruction sits
CodeBase == 4198400

(***************************************************************************)
(* uart_plugin.c: the registers of instance uart0 that are plain data      *)
(* (DR, FR and CR, which involve the FIFO and the worker, are not among    *)
(* the addresses of this model).                                           *)
(***************************************************************************)
UART_BASE == 1073750016

\* priv->base_addr = UART_BASE + instance_id * 0x1000, instance 0
uart_base_addr == UART_BASE + 0 * 4096

\* a 32-bit register whose value may exceed 2^31 - 1 is held as the set of
\* the positions of its 1 bits
WordBits == 0..31
Bits(v) == {i \in 0..30 : (v \div 2^i) % 2 = 1}

\* register_map.h: UART_FR_RXFE is bit 4, UART_FR_TXFF is bit 5;
\* UART_TX_READY is ~UART_FR_TXFF and UART_RX_READY is ~UART_FR_RXFE
UART_FR_RXFE == {4}
UART_FR_TXFF == {5}
UART_TX_READY == WordBits \ UART_FR_TXFF
UART_RX_READY == WordBits \ UART_FR_RXFE

\* rx_buffer holds the bytes written so far; every other byte of the 256 is
\* the 0 of uart_init's memset
RxAt(priv, i) == IF i \in DOMAIN priv.rx_buffer THEN priv.rx_buffer[i] ELSE 0
RxPut(buf, i, byte) == [k \in DOMAIN buf \cup {i} |-> IF k = i THEN byte ELSE buf[k]]

\* uart_init: the private data of a new instance
UartInitPriv ==
    [tx_reg |-> 0, status_reg |-> UART_TX_READY, ctrl_reg |-> 0, dma_ctrl_reg |-> 0,
     rx_buffer |-> [i \in {} |-> 0], rx_head |-> 0, rx_tail |-> 0,
     interrupt_enabled |-> FALSE, simulation_running |-> FALSE]

\* a data-register read that clears RX-ready whether or not a byte was there
uart_reg_read_clearing(priv, address) ==
    IF address = uart_base_addr THEN
        [priv |-> [priv EXCEPT
                     !.rx_tail = IF priv.rx_head /= priv.rx_tail THEN (@ + 1) % 256 ELSE @,
                     !.status_reg = @ \cap (WordBits \ UART_RX_READY)],
         ret |-> IF priv.rx_head /= priv.rx_tail THEN RxAt(priv, priv.rx_tail) ELSE 0]
    ELSE [priv |-> priv, ret |-> 0]

\* the private data afterwards and the value returned (the flag register
\* as the set of its 1 bits)
uart_reg_read(priv, address) ==
    LET relative_addr == address - uart_base_addr IN
    CASE relative_addr = 0 ->                      \* DR
            IF priv.rx_head /= priv.rx_tail THEN
                LET data == RxAt(priv, priv.rx_tail)
                    tail == (priv.rx_tail + 1) % 256
                IN  [priv |-> [priv EXCEPT
                                 !.rx_tail = tail,
                                 !.status_reg =
                                    IF priv.rx_head = tail
                                    THEN @ \cap (WordBits \ UART_RX_READY)
                                    ELSE @],
                     ret |-> data]
            ELSE [priv |-> priv, ret |-> 0]
      [] relative_addr = 4  -> [priv |-> priv, ret |-> 0]     \* RSR/ECR
      [] relative_addr = 24 -> [priv |-> priv, ret |-> priv.status_reg]   \* FR
      [] relative_addr = 32 -> [priv |-> priv, ret |-> 0]     \* ILPR
      [] relative_addr = 36 -> [priv |-> priv, ret |-> 110]   \* IBRD: 0x006E
      [] relative_addr = 40 -> [priv |-> priv, ret |-> 0]     \* FBRD
      [] relative_addr = 44 -> [priv |-> priv, ret |-> 112]   \* LCR_H: 0x0070
      [] relative_addr = 48 -> [priv |-> priv, ret |-> priv.ctrl_reg]     \* CR
      [] relative_addr \in {52, 56, 60, 64} -> [priv |-> priv, ret |-> 0] \* IFLS, IMSC, RIS, MIS
      [] relative_addr = 72 -> [priv |-> priv, ret |-> priv.dma_ctrl_reg] \* DMACR
      [] relative_addr = 8  -> [priv |-> priv, ret |-> priv.status_reg]   \* legacy status
      [] relative_addr = 12 -> [priv |-> priv, ret |-> priv.ctrl_reg]     \* legacy control
      [] relative_addr = 16 -> [priv |-> priv, ret |-> priv.dma_ctrl_reg] \* legacy DMA control
      [] OTHER -> [priv |-> priv, ret |-> 0]       \* "Invalid read address"

\* the private data afterwards, the value returned, and what the write did
\* besides: "tx_irq" (trigger_interrupt(instance_name, 5)), "start"
\* (pthread_create of the monitor thread), "stop" (pthread_join of it)
uart_reg_write(priv, address, value) ==
    LET relative_addr == address - uart_base_addr IN
    CASE relative_addr = 0 ->                      \* DR
            [priv |-> [priv EXCEPT !.tx_reg = value], ret |-> 0,
             effect |-> IF priv.interrupt_enabled /\ priv.ctrl_reg % 2 = 1
                        THEN "tx_irq" ELSE "none"]
      [] relative_addr = 48 ->                     \* CR
            IF value % 2 = 1 /\ ~priv.interrupt_enabled THEN
                [priv |-> [priv EXCEPT !.ctrl_reg = value, !.interrupt_enabled = TRUE,
                                       !.simulation_running = TRUE],
                 ret |-> 0, effect |-> "start"]
            ELSE IF value % 2 = 0 /\ priv.interrupt_enabled THEN
                [priv |-> [priv EXCEPT !.ctrl_reg = value, !.interrupt_enabled = FALSE,
                                       !.simulation_running = FALSE],
                 ret |-> 0, effect |-> "stop"]
            ELSE [priv |-> [priv EXCEPT !.ctrl_reg = value], ret |-> 0, effect |-> "none"]
      [] relative_addr = 72 ->                     \* DMACR
            [priv |-> [priv EXCEPT !.dma_ctrl_reg = value], ret |-> 0, effect |-> "none"]
      [] relative_addr = 8 ->                      \* legacy status
            [priv |-> [priv EXCEPT !.status_reg = Bits(value)], ret |-> 0, effect |-> "none"]
      [] relative_addr = 12 ->                     \* legacy control
            [priv |-> [priv EXCEPT !.ctrl_reg = value], ret |-> 0, effect |-> "none"]
      [] relative_addr = 16 ->                     \* legacy DMA control
            [priv |-> [priv EXCEPT !.dma_ctrl_reg = value], ret |-> 0, effect |-> "none"]
      [] relative_addr \in {4, 24, 32, 36, 40, 44, 52, 56, 68} ->
            [priv |-> priv, ret |-> 0, effect |-> "none"]
      [] OTHER -> [priv |-> priv, ret |-> -1, effect |-> "none"]   \* "Invalid write address"

\* the offsets of uart0 this model accesses: IBRD, DMACR, and 0x4C and 0x50,
\* which no case of the plugin's switch names
UartOffsets == {36, 72, 76, 80}

\* steady: the enable bit of ctrl_reg has been 1 ever since the thread started
NoThread == [pc |-> "none", cycle_count |-> 0, appended |-> 0, steady |-> FALSE]
NoRet == [op |-> "none", address |-> 0, ret |-> 0]

\* uart_reset(plugin, action): the private data afterwards
uart_reset(priv, action) ==
    IF action = "RESET_ASSERT" THEN
        [priv EXCEPT !.tx_reg = 0, !.status_reg = UART_TX_READY, !.ctrl_reg = 0,
                     !.dma_ctrl_reg = 0, !.rx_head = 0, !.rx_tail = 0]
    ELSE priv

\* offsets and values of the plugin operations of the model: DR, CR, the
\* legacy status and control offsets, and the read-only FR, RIS, MIS
UartWriteOffsets == {0, 48, 8, 12, 24, 60, 64}
UartReadOffsets == {0, 24, 48, 72}
UartValues == {0, 1}

HostFrame ==
    /\ UNCHANGED <<g_reg_mappings, g_msg_id_counter, fault_tmp, msg_ids, g_plugins, drv, exit_code, rip,
                   gregs, trap>>
    /\ UNCHANGED irqVars
    /\ UNCHANGED <<cleanup_log, dmaVars>>

\* plugin->reg_write(plugin, UART_BASE + offset, value); pthread_create
\* succeeds or fails
UartRegWrite(offset, value, create_ok) ==
    LET w == uart_reg_write(uart_priv, uart_base_addr + offset, value) IN
    /\ uart_host = "idle"
    /\ uart_ops < MaxUartOps
    /\ uart_ops' = uart_ops + 1
    /\ uart_ret' = [op |-> "reg_write", address |-> uart_base_addr + offset, ret |-> w.ret]
    /\ uart_irqs' = IF w.effect = "tx_irq" THEN [uart_irqs EXCEPT ![5] = @ + 1]
                    ELSE uart_irqs
    /\ IF w.effect = "start" THEN
            IF create_ok THEN
                /\ uart_priv' = w.priv
                /\ uart_thread' = [pc |-> "top", cycle_count |-> 0, appended |-> 0,
                                   steady |-> TRUE]
                /\ after_reset' = FALSE
                /\ UNCHANGED uart_host
            ELSE
                /\ uart_priv' = [w.priv EXCEPT !.interrupt_enabled = FALSE,
                                               !.simulation_running = FALSE]
                /\ UNCHANGED <<uart_thread, after_reset, uart_host>>
       ELSE IF w.effect = "stop" THEN
            \* pthread_join(priv->monitor_thread, NULL)
            /\ uart_priv' = w.priv
            /\ uart_host' = "join"
            /\ uart_thread' = [uart_thread EXCEPT !.steady = FALSE]
            /\ UNCHANGED after_reset
       ELSE
            /\ uart_priv' = w.priv
            /\ uart_thread' = [uart_thread EXCEPT !.steady = @ /\ w.priv.ctrl_reg % 2 = 1]
            /\ UNCHANGED <<after_reset, uart_host>>
    /\ HostFrame

\* plugin->reg_read(plugin, UART_BASE + offset)
UartRegRead(offset) ==
    LET r == uart_reg_read(uart_priv, uart_base_addr + offset) IN
    /\ uart_host = "idle"
    /\ uart_ops < MaxUartOps
    /\ uart_ops' = uart_ops + 1
    /\ uart_ret' = [op |-> "reg_read", address |-> uart_base_addr + offset, ret |-> r.ret]
    /\ uart_priv' = r.priv
    /\ UNCHANGED <<uart_thread, uart_host, uart_irqs, after_reset>>
    /\ HostFrame

\* plugin->reset(plugin, action)
UartReset(action) ==
    /\ uart_host = "idle"
    /\ uart_ops < MaxUartOps
    /\ uart_ops' = uart_ops + 1
    /\ uart_ret' = [op |-> "reset", address |-> 0, ret |-> 0]
    /\ uart_priv' = uart_reset(uart_priv, action)
    /\ after_reset' = IF action = "RESET_ASSERT" THEN TRUE ELSE after_reset
    /\ uart_thread' = [uart_thread EXCEPT !.steady = @ /\ action /= "RESET_ASSERT"]
    /\ UNCHANGED <<uart_host, uart_irqs>>
    /\ HostFrame

\* plugin->cleanup(plugin): nothing when private_data is NULL; otherwise
\* stops and joins the monitor thread when simulation_running, then frees
\* the private data
uart_cleanup ==
    /\ uart_host \in {"idle", "cleaned"}
    /\ uart_ops < MaxUartOps
    /\ uart_ops' = uart_ops + 1
    /\ uart_ret' = [op |-> "cleanup", address |-> 0, ret |-> 0,
                    again |-> uart_host = "cleaned"]
    /\ IF uart_host = "cleaned" THEN UNCHANGED <<uart_priv, uart_host>>
       ELSE IF uart_priv.simulation_running THEN
            /\ uart_priv' = [uart_priv EXCEPT !.simulation_running = FALSE]
            /\ uart_host' = "cleanup_join"
       ELSE
            /\ uart_host' = "cleaned"
            /\ UNCHANGED uart_priv
    /\ UNCHANGED <<uart_thread, uart_irqs, after_reset>>
    /\ HostFrame

\* pthread_join returns once the monitor thread has exited
UartJoinReturn ==
    /\ uart_host \in {"join", "cleanup_join"}
    /\ uart_thread.pc = "none"
    /\ uart_host' = IF uart_host = "join" THEN "idle" ELSE "cleaned"
    /\ UNCHANGED <<uart_priv, uart_thread, uart_ret, uart_irqs, uart_ops, after_reset>>
    /\ HostFrame

\* uart_monitor_thread: while (priv->simulation_running) { sleep(1); cycle_count++;
UartThreadTop ==
    /\ uart_thread.pc = "top"
    /\ IF uart_priv.simulation_running THEN
            /\ uart_thread.cycle_count < MaxCycles
            /\ uart_thread' = [uart_thread EXCEPT !.pc = "woke", !.cycle_count = @ + 1]
       ELSE uart_thread' = NoThread
    /\ UNCHANGED <<uart_priv, uart_host, uart_ret, uart_irqs, uart_ops, after_reset>>
    /\ HostFrame

\* if (interrupt_enabled && ctrl_reg & 0x01) if (cycle_count % 5 == 0 && rx_head == rx_tail)
UartThreadCheck ==
    /\ uart_thread.pc = "woke"
    /\ uart_thread' =
         [uart_thread EXCEPT !.pc =
            IF /\ uart_priv.interrupt_enabled
               /\ uart_priv.ctrl_reg % 2 = 1
               /\ uart_thread.cycle_count % 5 = 0
               /\ uart_priv.rx_head = uart_priv.rx_tail
            THEN "append" ELSE "top"]
    /\ UNCHANGED <<uart_priv, uart_host, uart_ret, uart_irqs, uart_ops, after_reset>>
    /\ HostFrame

\* the byte the monitor thread appends in cycle cycle_count
RxByte(cycle_count) == 65 + (((cycle_count \div 5) - 1) % 26)

\* rx_buffer[rx_head] = 0x41 + ...; rx_head++; status_reg |= UART_RX_READY;
\* trigger_interrupt(instance_name, 6)
UartThreadAppend ==
    /\ uart_thread.pc = "append"
    /\ uart_priv' = [uart_priv EXCEPT
                       !.rx_buffer = RxPut(@, uart_priv.rx_head,
                                           RxByte(uart_thread.cycle_count)),
                       !.rx_head = (@ + 1) % 256,
                       !.status_reg = @ \cup UART_RX_READY]
    /\ uart_irqs' = [uart_irqs EXCEPT ![6] = @ + 1]
    /\ uart_thread' = [uart_thread EXCEPT !.pc = "top", !.appended = @ + 1]
    /\ UNCHANGED <<uart_host, uart_ret, uart_ops, after_reset>>
    /\ HostFrame

\* the same append statement by statement, for the interleavings with the
\* thread that serves register accesses: rx_buffer[rx_head] = ...; rx_head++
UartThreadStore ==
    /\ uart_thread.pc = "append"
    /\ uart_priv' = [uart_priv EXCEPT
                       !.rx_buffer = RxPut(@, uart_priv.rx_head,
                                           RxByte(uart_thread.cycle_count)),
                       !.rx_head = (@ + 1) % 256]
    /\ uart_thread' = [uart_thread EXCEPT !.pc = "flag"]
    /\ UNCHANGED <<uart_host, uart_ret, uart_irqs, uart_ops, after_reset>>
    /\ HostFrame

\* status_reg |= UART_RX_READY; trigger_interrupt(instance_name, 6)
UartThreadFlag ==
    /\ uart_thread.pc = "flag"
    /\ uart_priv' = [uart_priv EXCEPT !.status_reg = @ \cup UART_RX_READY]
    /\ uart_irqs' = [uart_irqs EXCEPT ![6] = @ + 1]
    /\ uart_thread' = [uart_thread EXCEPT !.pc = "top", !.appended = @ + 1]
    /\ UNCHANGED <<uart_host, uart_ret, uart_ops, after_reset>>
    /\ HostFrame

(***************************************************************************)
(* dma_plugin.c: the DMA plugin, instance dma0                             *)
(***************************************************************************)
\* register_map.h: DMA0_BASE 0x40006000 and the legacy register addresses
DMA_BASE_ADDR == 1073766400
DMA_CH_OFFSET == 32
DMA_GLOBAL_CTRL_REG == DMA_BASE_ADDR + 48
DMA_GLOBAL_STATUS_REG == DMA_BASE_ADDR + 0
DMA_INT_STATUS_REG == DMA_BASE_ADDR + 0
DMA_INT_CLEAR_REG == DMA_BASE_ADDR + 8
DMA_CH_BASE_ADDR == DMA_BASE_ADDR + 256
DMA_CH_CTRL_REG(ch) == DMA_CH_BASE_ADDR + ch * DMA_CH_OFFSET + 12
DMA_CH_STATUS_REG(ch) == DMA_CH_BASE_ADDR + ch * DMA_CH_OFFSET + 16
DMA_CH_SRC_REG(ch) == DMA_CH_BASE_ADDR + ch * DMA_CH_OFFSET + 0
DMA_CH_DST_REG(ch) == DMA_CH_BASE_ADDR + ch * DMA_CH_OFFSET + 4
DMA_CH_SIZE_REG(ch) == DMA_CH_BASE_ADDR + ch * DMA_CH_OFFSET + 12
DMA_CH_CONFIG_REG(ch) == DMA_CH_BASE_ADDR + ch * DMA_CH_OFFSET + 16

\* dma_init: base_addr and channel_base_addr of instance 0
dma_base_addr == DMA_BASE_ADDR + 0 * 4096
dma_channel_base_addr == dma_base_addr + 256

\* the channels of the model: the first MaxDmaChannels of the plugin's 16
DmaChannels == 0..(MaxDmaChannels - 1)

\* bit b of the word v is set; v |= 1 << b; v &= ~(1 << b); v &= ~m
BitSet(v, b) == (v \div 2^b) % 2 = 1
OrBit(v, b) == IF BitSet(v, b) THEN v ELSE v + 2^b
ClearBit(v, b) == IF BitSet(v, b) THEN v - 2^b ELSE v
AndNot(v, m) ==
    SumOver([b \in 0..30 |-> IF BitSet(v, b) /\ ~BitSet(m, b) THEN 2^b ELSE 0], 0..30)

\* dma_channel_regs_t after memset(0)
ZeroChannel == [ctrl |-> 0, status |-> 0, src_addr |-> 0, dst_addr |-> 0,
                size |-> 0, config |-> 0]

\* the test transfer dma_init sets up on channel 0
TestChannel == [ctrl |-> 1, status |-> 0, src_addr |-> 536870912,
                dst_addr |-> 1073745920, size |-> 17, config |-> 256]

\* dma_private_t after dma_init
DmaInitPriv ==
    [channels |-> [ch \in DmaChannels |-> IF ch = 0 THEN TestChannel ELSE ZeroChannel],
     enabled |-> FALSE, simulation_running |-> TRUE,
     dma_global_ctrl |-> 0, dma_global_status |-> 0, dma_int_status |-> 0]

\* the channel whose register window holds address, or -1
ChannelOf(address) ==
    IF \E ch \in DmaChannels :
          /\ address >= dma_channel_base_addr + ch * DMA_CH_OFFSET
          /\ address < dma_channel_base_addr + ch * DMA_CH_OFFSET + DMA_CH_OFFSET
    THEN (address - dma_channel_base_addr) \div DMA_CH_OFFSET
    ELSE -1

\* dma_reg_read with the source and destination cases exchanged
dma_reg_read_swapped(priv, address) ==
    LET ch == ChannelOf(address)
        offset == address - (dma_channel_base_addr + ch * DMA_CH_OFFSET)
    IN  IF address = dma_base_addr + (DMA_GLOBAL_CTRL_REG - DMA_BASE_ADDR)
        THEN priv.dma_global_ctrl
        ELSE IF address = dma_base_addr + (DMA_GLOBAL_STATUS_REG - DMA_BASE_ADDR)
        THEN priv.dma_global_status
        ELSE IF ch >= 0 THEN
            CASE offset = 0 -> priv.channels[ch].ctrl
              [] offset = 4 -> priv.channels[ch].status
              [] offset = 8 -> priv.channels[ch].dst_addr
              [] offset = 12 -> priv.channels[ch].src_addr
              [] offset = 16 -> priv.channels[ch].size
              [] offset = 20 -> priv.channels[ch].config
              [] OTHER -> 0
        ELSE 0

\* dma_reg_read(plugin, address): the value returned
dma_reg_read(priv, address) ==
    LET global_ctrl_addr == dma_base_addr + (DMA_GLOBAL_CTRL_REG - DMA_BASE_ADDR)
        global_status_addr == dma_base_addr + (DMA_GLOBAL_STATUS_REG - DMA_BASE_ADDR)
        int_status_addr == dma_base_addr + (DMA_INT_STATUS_REG - DMA_BASE_ADDR)
        ch == ChannelOf(address)
        offset == address - (dma_channel_base_addr + ch * DMA_CH_OFFSET)
    IN  IF address = global_ctrl_addr THEN priv.dma_global_ctrl
        ELSE IF address = global_status_addr THEN priv.dma_global_status
        ELSE IF address = int_status_addr THEN priv.dma_int_status
        ELSE IF ch >= 0 THEN
            CASE offset = 0 -> priv.channels[ch].ctrl
              [] offset = 4 -> priv.channels[ch].status
              [] offset = 8 -> priv.channels[ch].src_addr
              [] offset = 12 -> priv.channels[ch].dst_addr
              [] offset = 16 -> priv.channels[ch].size
              [] offset = 20 -> priv.channels[ch].config
              [] OTHER -> 0
        ELSE 0

\* dma_reg_write without the default size
dma_reg_write_no_default(priv, address, value) ==
    LET global_ctrl_addr == dma_base_addr + (DMA_GLOBAL_CTRL_REG - DMA_BASE_ADDR)
        global_status_addr == dma_base_addr + (DMA_GLOBAL_STATUS_REG - DMA_BASE_ADDR)
        int_clear_addr == dma_base_addr + (DMA_INT_CLEAR_REG - DMA_BASE_ADDR)
        ch == ChannelOf(address)
        offset == address - (dma_channel_base_addr + ch * DMA_CH_OFFSET)
    IN  IF address = global_ctrl_addr THEN
            [priv EXCEPT !.dma_global_ctrl = value, !.enabled = (value % 2 = 1)]
        ELSE IF address = global_status_addr THEN
            [priv EXCEPT !.dma_global_status = value]
        ELSE IF address = int_clear_addr THEN
            [priv EXCEPT !.dma_int_status = AndNot(@, value)]
        ELSE IF ch >= 0 THEN
            CASE offset = 0 -> [priv EXCEPT !.channels[ch].ctrl = value]
              [] offset = 4 -> [priv EXCEPT !.channels[ch].status = value]
              [] offset = 8 -> [priv EXCEPT !.channels[ch].src_addr = value]
              [] offset = 12 -> [priv EXCEPT !.channels[ch].dst_addr = value]
              [] offset = 16 -> [priv EXCEPT !.channels[ch].size = value]
              [] offset = 20 -> [priv EXCEPT !.channels[ch].config = value]
              [] OTHER -> priv
        ELSE priv

\* dma_reg_write(plugin, address, value): the private data afterwards (the
\* function returns 0 on every path)
dma_reg_write(priv, address, value) ==
    LET global_ctrl_addr == dma_base_addr + (DMA_GLOBAL_CTRL_REG - DMA_BASE_ADDR)
        global_status_addr == dma_base_addr + (DMA_GLOBAL_STATUS_REG - DMA_BASE_ADDR)
        int_clear_addr == dma_base_addr + (DMA_INT_CLEAR_REG - DMA_BASE_ADDR)
        ch == ChannelOf(address)
        offset == address - (dma_channel_base_addr + ch * DMA_CH_OFFSET)
    IN  IF address = global_ctrl_addr THEN
            [priv EXCEPT !.dma_global_ctrl = value, !.enabled = (value % 2 = 1)]
        ELSE IF address = global_status_addr THEN
            [priv EXCEPT !.dma_global_status = value]
        ELSE IF address = int_clear_addr THEN
            [priv EXCEPT !.dma_int_status = AndNot(@, value)]
        ELSE IF ch >= 0 THEN
            CASE offset = 0 ->
                    [priv EXCEPT !.channels[ch].ctrl = value,
                                 !.channels[ch].size =
                                    IF value % 2 = 1 /\ @ = 0 THEN 1024 ELSE @]
              [] offset = 4 -> [priv EXCEPT !.channels[ch].status = value]
              [] offset = 8 -> [priv EXCEPT !.channels[ch].src_addr = value]
              [] offset = 12 -> [priv EXCEPT !.channels[ch].dst_addr = value]
              [] offset = 16 -> [priv EXCEPT !.channels[ch].size = value]
              [] offset = 20 -> [priv EXCEPT !.channels[ch].config = value]
              [] OTHER -> priv
        ELSE priv

\* one pass of the body of dma_monitor_thread's for loop, for channel i:
\* the private data afterwards, the bytes moved and whether it completed
monitor_step(priv, i) ==
    LET c == priv.channels[i]
        transfer_amount == IF c.size > 512 THEN 512 ELSE c.size
    IN  IF c.ctrl % 2 = 1 /\ c.size > 0 THEN
            IF c.size - transfer_amount = 0 THEN
                [priv |-> [priv EXCEPT !.channels[i].size = 0,
                                       !.channels[i].ctrl = ClearBit(@, 0),
                                       !.channels[i].status = OrBit(@, 1),
                                       !.dma_int_status = OrBit(@, i)],
                 moved |-> transfer_amount, completed |-> TRUE,
                 irqs |-> <<[module |-> "dma0", irq_num |-> 10 + i]>>]
            ELSE
                [priv |-> [priv EXCEPT !.channels[i].size = @ - transfer_amount],
                 moved |-> transfer_amount, completed |-> FALSE, irqs |-> <<>>]
        ELSE [priv |-> priv, moved |-> 0, completed |-> FALSE, irqs |-> <<>>]

\* one pass of the body of dma_clock's for loop, for channel i
clock_step(priv, i) ==
    LET c == priv.channels[i] IN
    IF c.ctrl % 2 = 1 /\ c.size > 0 THEN
        IF c.size - 1 = 0 THEN
            [priv |-> [priv EXCEPT !.channels[i].size = 0,
                                   !.channels[i].ctrl = ClearBit(@, 0),
                                   !.channels[i].status = OrBit(@, 1)],
             moved |-> 1, completed |-> TRUE,
             irqs |-> IF BitSet(c.config, 8)
                      THEN <<[module |-> "dma", irq_num |-> 10 + i]>> ELSE <<>>]
        ELSE
            [priv |-> [priv EXCEPT !.channels[i].size = @ - 1],
             moved |-> 1, completed |-> FALSE, irqs |-> <<>>]
    ELSE [priv |-> priv, moved |-> 0, completed |-> FALSE, irqs |-> <<>>]

\* the driver's buffers: test_src_buffer and test_dst_buffer
SrcBuf == 536870912
DstBuf == 536871168
BufAddrs == {SrcBuf + k : k \in 0..(MaxBuf - 1)} \cup {DstBuf + k : k \in 0..(MaxBuf - 1)}

\* a channel the driver has written source, destination, size and a
\* configuration with both increment flags and the interrupt enable
\* (0x130), and has not yet enabled
CopyChannel == [ctrl |-> 0, status |-> 0, src_addr |-> SrcBuf, dst_addr |-> DstBuf,
                size |-> MaxBuf, config |-> 304]

NoDmaThread == [pc |-> "none", i |-> 0, created |-> FALSE]
NoXfer == [n |-> 0, sum |-> 0, before |-> 0, amount |-> 0, tick |-> "none",
           clean |-> FALSE]
NewXfer(n) == [n |-> n, sum |-> 0, before |-> 0, amount |-> 0, tick |-> "none",
               clean |-> TRUE]

\* addresses and values of the plugin operations of the model
DmaOffsets == {0, 4, 8, 12, 16, 20}
DmaAddrs ==
    {DMA_GLOBAL_CTRL_REG, DMA_INT_STATUS_REG, DMA_INT_CLEAR_REG}
    \cup {dma_channel_base_addr + 1 * DMA_CH_OFFSET + o : o \in DmaOffsets}
DmaValues == {0, 1}

\* the channel registers the host writes and reads back
DmaStored == {dma_channel_base_addr + 1 * DMA_CH_OFFSET + o : o \in DmaOffsets}
NoneWritten == [last |-> 0, vals |-> [a \in DmaStored |-> -1]]

DmaFrame ==
    /\ UNCHANGED <<irqVars, trapVars, plugVars>>
    /\ UNCHANGED <<mem, drvVars>>

\* the transfers in progress after one tick whose passes were steps
Ticked(xfer, priv, steps, kind) ==
    [ch \in DmaChannels |->
        IF steps[ch].moved > 0 THEN
            [xfer[ch] EXCEPT !.sum = @ + steps[ch].moved,
                             !.before = priv.channels[ch].size,
                             !.amount = steps[ch].moved,
                             !.tick = kind]
        ELSE xfer[ch]]

\* plugin->reg_write(plugin, address, value)
DmaRegWrite(address, value) ==
    LET ch == ChannelOf(address)
        p == dma_reg_write(dma_priv, address, value)
    IN  /\ dma_host = "idle"
        /\ dma_ops < MaxDmaOps
        /\ dma_ops' = dma_ops + 1
        /\ dma_priv' = p
        /\ dma_ret' = [op |-> "reg_write", address |-> address, value |-> value, ret |-> 0]
        /\ dma_xfer' =
             IF ch < 0 THEN dma_xfer
             ELSE IF address = dma_channel_base_addr + ch * DMA_CH_OFFSET /\ value % 2 = 1
                  THEN [dma_xfer EXCEPT ![ch] = NewXfer(p.channels[ch].size)]
             ELSE [dma_xfer EXCEPT ![ch].clean = FALSE]
        /\ dma_written' = [last |-> address,
                           vals |-> [a \in DmaStored |->
                                       IF a = address THEN value ELSE dma_written.vals[a]]]
        /\ UNCHANGED <<dma_thread, dma_host, dma_irqs>>
        /\ DmaFrame

\* plugin->reg_read(plugin, address)
DmaRegRead(address) ==
    /\ dma_host = "idle"
    /\ dma_ops < MaxDmaOps
    /\ dma_ops' = dma_ops + 1
    /\ dma_ret' = [op |-> "reg_read", address |-> address, value |-> 0,
                   ret |-> dma_reg_read(dma_priv, address)]
    /\ UNCHANGED <<dma_priv, dma_thread, dma_host, dma_irqs, dma_xfer, dma_written>>
    /\ DmaFrame

\* the passes of one loop over the channels, from channel i on
RECURSIVE ClockFrom(_, _)
ClockFrom(priv, i) ==
    IF i >= MaxDmaChannels THEN [priv |-> priv, steps |-> <<>>, irqs |-> <<>>]
    ELSE LET s == clock_step(priv, i)
             rest == ClockFrom(s.priv, i + 1)
         IN  [priv |-> rest.priv, steps |-> <<s>> \o rest.steps,
              irqs |-> s.irqs \o rest.irqs]

\* plugin->clock(plugin, action, cycles)
dma_clock(action) ==
    LET r == ClockFrom(dma_priv, 0)
        steps == [ch \in DmaChannels |-> r.steps[ch + 1]]
    IN  /\ dma_host = "idle"
        /\ dma_ops < MaxDmaOps
        /\ dma_ops' = dma_ops + 1
        /\ dma_ret' = [op |-> "clock", address |-> 0, value |-> 0, ret |-> 0]
        /\ IF action = "CLOCK_TICK" THEN
                /\ dma_priv' = r.priv
                /\ dma_irqs' = dma_irqs \o r.irqs
                /\ dma_xfer' = Ticked(dma_xfer, dma_priv, steps, "clock")
                /\ dma_written' = NoneWritten
           ELSE UNCHANGED <<dma_priv, dma_irqs, dma_xfer, dma_written>>
        /\ UNCHANGED <<dma_thread, dma_host>>
        /\ DmaFrame

\* plugin->reset(plugin, action), up to pthread_join.  A second join of a
\* thread already joined is undefined: it returns at once or the process dies.
DmaReset(action, join_ok) ==
    /\ dma_host = "idle"
    /\ dma_ops < MaxDmaOps
    /\ dma_ops' = dma_ops + 1
    /\ dma_ret' = [op |-> "reset", address |-> 0, value |-> 0, ret |-> 0]
    /\ IF action = "RESET_ASSERT" THEN
            /\ dma_priv' = [dma_priv EXCEPT !.simulation_running = FALSE]
            /\ dma_host' = IF dma_thread.created /\ dma_thread.pc = "none" /\ ~join_ok
                           THEN "crashed" ELSE "reset_join"
       ELSE UNCHANGED <<dma_priv, dma_host>>
    /\ dma_written' = IF action = "RESET_ASSERT" THEN NoneWritten ELSE dma_written
    /\ UNCHANGED <<dma_thread, dma_irqs, dma_xfer>>
    /\ DmaFrame

\* dma_cleanup without the test of private_data
dma_cleanup_unguarded ==
    /\ dma_host \in {"idle", "cleaned"}
    /\ dma_ops < MaxDmaOps
    /\ dma_ops' = dma_ops + 1
    /\ dma_ret' = [op |-> "cleanup", address |-> 0, value |-> 0, ret |-> 0,
                   again |-> dma_host = "cleaned"]
    /\ dma_priv' = [dma_priv EXCEPT !.simulation_running = FALSE]
    /\ dma_host' = "cleanup_join"
    /\ UNCHANGED <<dma_thread, dma_irqs, dma_xfer, dma_written>>
    /\ DmaFrame

\* plugin->cleanup(plugin), up to pthread_join; nothing when private_data is NULL
dma_cleanup ==
    /\ dma_host \in {"idle", "cleaned"}
    /\ dma_ops < MaxDmaOps
    /\ dma_ops' = dma_ops + 1
    /\ dma_ret' = [op |-> "cleanup", address |-> 0, value |-> 0, ret |-> 0,
                   again |-> dma_host = "cleaned"]
    /\ IF dma_host = "cleaned" THEN UNCHANGED <<dma_priv, dma_host>>
       ELSE IF dma_priv.simulation_running THEN
            /\ dma_priv' = [dma_priv EXCEPT !.simulation_running = FALSE]
            /\ dma_host' = "cleanup_join"
       ELSE
            /\ dma_host' = "cleaned"
            /\ UNCHANGED dma_priv
    /\ UNCHANGED <<dma_thread, dma_irqs, dma_xfer, dma_written>>
    /\ DmaFrame

\* pthread_join returns once the monitor thread has exited; dma_reset then
\* clears the channels and the global registers, dma_cleanup frees the data
DmaJoinReturn ==
    /\ dma_host \in {"reset_join", "cleanup_join"}
    /\ dma_thread.pc = "none"
    /\ IF dma_host = "reset_join" THEN
            /\ dma_priv' = [dma_priv EXCEPT
                              !.channels = [ch \in DmaChannels |-> ZeroChannel],
                              !.enabled = FALSE, !.dma_global_ctrl = 0,
                              !.dma_global_status = 0, !.dma_int_status = 0]
            /\ dma_xfer' = [ch \in DmaChannels |-> NoXfer]
            /\ dma_host' = "idle"
       ELSE
            /\ dma_host' = "cleaned"
            /\ UNCHANGED <<dma_priv, dma_xfer>>
    /\ UNCHANGED <<dma_thread, dma_ret, dma_irqs, dma_ops, dma_written>>
    /\ DmaFrame

\* dma_monitor_thread: while (priv->simulation_running) { sleep(1); cycle_count++;
DmaThreadTop ==
    /\ dma_thread.pc = "top"
    /\ dma_thread' = IF dma_priv.simulation_running
                     THEN [dma_thread EXCEPT !.pc = "scan", !.i = 0]
                     ELSE [dma_thread EXCEPT !.pc = "none", !.i = 0]
    /\ UNCHANGED <<dma_priv, dma_host, dma_ret, dma_irqs, dma_ops, dma_xfer, dma_written>>
    /\ DmaFrame

\* dma_monitor_thread: the body of for (int i = 0; i < 16; i++) for one i
DmaThreadScan ==
    LET s == monitor_step(dma_priv, dma_thread.i)
        steps == [ch \in DmaChannels |->
                    IF ch = dma_thread.i THEN s
                    ELSE [priv |-> dma_priv, moved |-> 0, completed |-> FALSE,
                          irqs |-> <<>>]]
    IN  /\ dma_thread.pc = "scan"
        /\ dma_priv' = s.priv
        /\ dma_irqs' = dma_irqs \o s.irqs
        /\ dma_xfer' = Ticked(dma_xfer, dma_priv, steps, "worker")
        /\ dma_written' = NoneWritten
        /\ dma_thread' = IF dma_thread.i + 1 < MaxDmaChannels
                         THEN [dma_thread EXCEPT !.i = @ + 1]
                         ELSE [dma_thread EXCEPT !.pc = "top", !.i = 0]
        /\ UNCHANGED <<dma_host, dma_ret, dma_ops>>
        /\ DmaFrame

\* dma_monitor_thread's pass over channel i statement by statement, for the
\* interleavings with the thread that serves register accesses.  The
\* thread record also keeps what the pass started from: the private data
\* (snap) and the number of host operations (ops0).
NextChannel(t) ==
    IF t.i + 1 < MaxDmaChannels THEN [t EXCEPT !.pc = "scan", !.i = @ + 1]
    ELSE [t EXCEPT !.pc = "top", !.i = 0]

TickFrame ==
    /\ UNCHANGED <<dma_host, dma_ret, dma_ops, dma_xfer, dma_written>>
    /\ DmaFrame

\* if (priv->channels[i].ctrl & 0x01) ... if (priv->channels[i].size > 0)
DmaTickTest ==
    LET c == dma_priv.channels[dma_thread.i]
        t == [dma_thread EXCEPT !.snap = dma_priv, !.ops0 = dma_ops]
    IN  /\ dma_thread.pc = "scan"
        /\ dma_thread' = IF c.ctrl % 2 = 1 /\ c.size > 0
                         THEN [t EXCEPT !.pc = "move"] ELSE NextChannel(t)
        /\ UNCHANGED <<dma_priv, dma_irqs>>
        /\ TickFrame

\* transfer_amount = (size > 512) ? 512 : size; size -= transfer_amount
DmaTickMove ==
    LET c == dma_priv.channels[dma_thread.i]
        transfer_amount == IF c.size > 512 THEN 512 ELSE c.size
    IN  /\ dma_thread.pc = "move"
        /\ dma_priv' = [dma_priv EXCEPT
                          !.channels[dma_thread.i].size = @ - transfer_amount]
        /\ dma_thread' = [dma_thread EXCEPT !.pc = "check"]
        /\ UNCHANGED dma_irqs
        /\ TickFrame

\* if (priv->channels[i].size == 0)
DmaTickCheck ==
    /\ dma_thread.pc = "check"
    /\ dma_thread' = IF dma_priv.channels[dma_thread.i].size = 0
                     THEN [dma_thread EXCEPT !.pc = "complete"]
                     ELSE NextChannel(dma_thread)
    /\ UNCHANGED <<dma_priv, dma_irqs>>
    /\ TickFrame

\* ctrl &= ~0x01; status |= 0x02; dma_int_status |= (1 << i);
\* trigger_interrupt(priv->instance_name, 10 + i)
DmaTickComplete ==
    LET i == dma_thread.i IN
    /\ dma_thread.pc = "complete"
    /\ dma_priv' = [dma_priv EXCEPT !.channels[i].ctrl = ClearBit(@, 0),
                                    !.channels[i].status = OrBit(@, 1),
                                    !.dma_int_status = OrBit(@, i)]
    /\ dma_irqs' = Append(dma_irqs, [module |-> "dma0", irq_num |-> 10 + i])
    /\ dma_thread' = NextChannel(dma_thread)
    /\ TickFrame

\* the same pass with its trigger_interrupt call carried out: the signal
\* bound to (module, irq_num) is queued for the process, nothing when the
\* signal map has no such entry
DmaThreadScanIrq ==
    LET s == monitor_step(dma_priv, dma_thread.i)
        steps == [ch \in DmaChannels |->
                    IF ch = dma_thread.i THEN s
                    ELSE [priv |-> dma_priv, moved |-> 0, completed |-> FALSE,
                          irqs |-> <<>>]]
        k == IF s.irqs = <<>> THEN 0
             ELSE FindSignalMapping(s.irqs[1].module, s.irqs[1].irq_num)
    IN  /\ dma_thread.pc = "scan"
        /\ dma_priv' = s.priv
        /\ dma_irqs' = dma_irqs \o s.irqs
        /\ dma_xfer' = Ticked(dma_xfer, dma_priv, steps, "worker")
        /\ dma_written' = NoneWritten
        /\ dma_thread' = IF dma_thread.i + 1 < MaxDmaChannels
                         THEN [dma_thread EXCEPT !.i = @ + 1]
                         ELSE [dma_thread EXCEPT !.pc = "top", !.i = 0]
        /\ sig_pending' = IF k = 0 THEN sig_pending
                          ELSE [sig_pending EXCEPT
                                  ![g_signal_mappings[k].signal_num] = @ + 1]
        /\ UNCHANGED <<dma_host, dma_ret, dma_ops>>
        /\ UNCHANGED <<g_interrupt_bindings, g_signal_mappings, sig_frames, rv,
                       triggered, invoked, disturbed>>
        /\ UNCHANGED <<trapVars, plugVars>>
        /\ UNCHANGED <<mem, drvVars>>

(***************************************************************************)
(* dma_driver.c: the legacy channel API and the HAL on top of the          *)
(* registers of dma0.  A store or load of the driver to a register address *)
(* reaches the plugin as dma_reg_write or dma_reg_read.                    *)
(***************************************************************************)
DMA_MAX_CHANNELS == 8
HAL_OK == 0
HAL_ERROR == 1
HAL_BUSY == 2
HAL_TIMEOUT == 3
HAL_DMA_ERROR_NONE == 0
HAL_DMA_ERROR_TE == 1
HAL_DMA_ERROR_TIMEOUT == 32
HAL_DMA_ERROR_NO_XFER == 128
HAL_DMA_ERROR_NOT_SUPPORTED == 256

\* DMA_Channel_TypeDef at hdma->Instance = DMA0_Channel0_BASE + ch * 0x20
Instance_SrcAddr(ch) == DMA_BASE_ADDR + 256 + ch * 32 + 0
Instance_DestAddr(ch) == DMA_BASE_ADDR + 256 + ch * 32 + 4
Instance_Control(ch) == DMA_BASE_ADDR + 256 + ch * 32 + 12
Instance_Configuration(ch) == DMA_BASE_ADDR + 256 + ch * 32 + 16

\* hdma->Instance->Configuration |= bit; &= ~bit: a load and a store
SetConfigurationBit(priv, ch, b) ==
    dma_reg_write(priv, Instance_Configuration(ch),
                  OrBit(dma_reg_read(priv, Instance_Configuration(ch)), b))
ClearConfigurationBit(priv, ch, b) ==
    dma_reg_write(priv, Instance_Configuration(ch),
                  ClearBit(dma_reg_read(priv, Instance_Configuration(ch)), b))

\* __HAL_DMA_GET_FLAG(hdma, 1 << b)
HAL_DMA_GET_FLAG(priv, ch, b) == BitSet(dma_reg_read(priv, Instance_Configuration(ch)), b)

\* __HAL_LOCK(hdma) returns HAL_BUSY from the calling function when the
\* handle is locked and locks it otherwise; __HAL_UNLOCK(hdma) unlocks it
HAL_LOCKED(h) == h.Lock = "HAL_LOCKED"
HAL_LOCK(h) == [h EXCEPT !.Lock = "HAL_LOCKED"]
HAL_UNLOCK(h) == [h EXCEPT !.Lock = "HAL_UNLOCKED"]

\* DMA_SetConfig(hdma, SrcAddress, DstAddress, DataLength)
DMA_SetConfig(priv, ch, SrcAddress, DstAddress, DataLength) ==
    LET p1 == dma_reg_write(priv, Instance_SrcAddr(ch), SrcAddress)
        p2 == dma_reg_write(p1, Instance_DestAddr(ch), DstAddress)
    IN  dma_reg_write(p2, Instance_Control(ch), DataLength)

\* HAL_DMA_Init(hdma) with the Init fields dma_init gives every handle:
\* DMA_ConfigureTransfer stores Direction | PeriphInc | MemInc | ... = 1
HAL_DMA_Init(priv, ch) ==
    [priv |-> dma_reg_write(priv, Instance_Configuration(ch), 1),
     h |-> [State |-> "HAL_DMA_STATE_READY", Lock |-> "HAL_UNLOCKED",
            ErrorCode |-> HAL_DMA_ERROR_NONE],
     ret |-> HAL_OK]

\* HAL_DMA_Start that starts whatever the handle's State is
HAL_DMA_Start_unchecked(priv, h, ch, SrcAddress, DstAddress, DataLength) ==
    IF HAL_LOCKED(h) THEN [priv |-> priv, h |-> h, ret |-> HAL_BUSY]
    ELSE [priv |-> SetConfigurationBit(
                      DMA_SetConfig(priv, ch, SrcAddress, DstAddress, DataLength), ch, 0),
          h |-> [HAL_LOCK(h) EXCEPT !.State = "HAL_DMA_STATE_BUSY",
                                    !.ErrorCode = HAL_DMA_ERROR_NONE],
          ret |-> HAL_OK]

\* HAL_DMA_Start(hdma, SrcAddress, DstAddress, DataLength): the plugin's
\* data and the handle afterwards, and the status returned
HAL_DMA_Start(priv, h, ch, SrcAddress, DstAddress, DataLength) ==
    IF HAL_LOCKED(h) THEN [priv |-> priv, h |-> h, ret |-> HAL_BUSY]
    ELSE IF h.State = "HAL_DMA_STATE_READY" THEN
        [priv |-> SetConfigurationBit(
                      DMA_SetConfig(priv, ch, SrcAddress, DstAddress, DataLength), ch, 0),
         h |-> [HAL_LOCK(h) EXCEPT !.State = "HAL_DMA_STATE_BUSY",
                                   !.ErrorCode = HAL_DMA_ERROR_NONE],
         ret |-> HAL_OK]
    ELSE [priv |-> priv, h |-> HAL_UNLOCK(HAL_LOCK(h)), ret |-> HAL_BUSY]

\* HAL_DMA_Start_IT(hdma, SrcAddress, DstAddress, DataLength)
HAL_DMA_Start_IT(priv, h, ch, SrcAddress, DstAddress, DataLength) ==
    IF HAL_LOCKED(h) THEN [priv |-> priv, h |-> h, ret |-> HAL_BUSY]
    ELSE IF h.State = "HAL_DMA_STATE_READY" THEN
        [priv |-> SetConfigurationBit(
                    SetConfigurationBit(
                      SetConfigurationBit(
                        DMA_SetConfig(priv, ch, SrcAddress, DstAddress, DataLength),
                        ch, 1),
                      ch, 2),
                    ch, 0),
         h |-> [HAL_LOCK(h) EXCEPT !.State = "HAL_DMA_STATE_BUSY",
                                   !.ErrorCode = HAL_DMA_ERROR_NONE],
         ret |-> HAL_OK]
    ELSE [priv |-> priv, h |-> HAL_UNLOCK(HAL_LOCK(h)), ret |-> HAL_BUSY]

\* HAL_DMA_Abort(hdma): the channel is disabled by the store, so the loop
\* that waits for the enable bit to read 0 ends at its first test
HAL_DMA_Abort(priv, h, ch) ==
    IF h.State /= "HAL_DMA_STATE_BUSY" THEN
        [priv |-> priv, h |-> [h EXCEPT !.ErrorCode = HAL_DMA_ERROR_NO_XFER],
         ret |-> HAL_ERROR]
    ELSE [priv |-> ClearConfigurationBit(priv, ch, 0),
          h |-> HAL_UNLOCK([h EXCEPT !.State = "HAL_DMA_STATE_READY"]),
          ret |-> HAL_OK]

\* dma_init of the driver, from channel ch on: HAL_DMA_Init of every handle
RECURSIVE InitHandles(_, _)
InitHandles(priv, ch) ==
    IF ch >= DMA_MAX_CHANNELS THEN priv
    ELSE InitHandles(HAL_DMA_Init(priv, ch).priv, ch + 1)

\* dma_init of the driver: the plugin's data after the handles are
\* initialised, the controller is enabled (DMA_CTRL_ENABLE) and the
\* interrupt flags are cleared (0xFFFF)
DriverInitPriv(priv) ==
    dma_reg_write(dma_reg_write(InitHandles(priv, 0), DMA_GLOBAL_CTRL_REG, 1),
                  DMA_INT_CLEAR_REG, 65535)

\* the dma_config_t the callers pass: the test's buffers, all of them or
\* from the second byte on, memory to memory with both increments
DrvConfigs ==
    {[src_addr |-> s, dst_addr |-> DstBuf, size |-> MaxBuf, type |-> 0,
      inc_src |-> TRUE, inc_dst |-> TRUE, interrupt_enable |-> ie] :
        s \in {SrcBuf, SrcBuf + 1}, ie \in BOOLEAN}
NoCfg == [src_addr |-> 0, dst_addr |-> 0, size |-> 0, type |-> 0,
          inc_src |-> FALSE, inc_dst |-> FALSE, interrupt_enable |-> FALSE]

\* dma_configure_channel: config_reg
config_reg(config) ==
    (config.type % 4) + (IF config.inc_src THEN 16 ELSE 0)
        + (IF config.inc_dst THEN 32 ELSE 0)
        + (IF config.interrupt_enable THEN 256 ELSE 0)

NoPoll == [pc |-> "none", channel |-> 0, Timeout |-> 0, tickstart |-> 0]
NoDrvRet == [op |-> "none", channel |-> 0, was |-> "none", ret |-> 0]
ResetHandle == [State |-> "HAL_DMA_STATE_RESET", Lock |-> "HAL_UNLOCKED",
                ErrorCode |-> HAL_DMA_ERROR_NONE]

\* the driver when none of its functions is modelled
DrvIdle ==
    /\ g_dma_channels = [ch \in DmaChannels |-> [allocated |-> FALSE, busy |-> FALSE]]
    /\ g_dma_handles = [ch \in DmaChannels |-> ResetHandle]
    /\ tick_counter = 0
    /\ drv_poll = NoPoll
    /\ drv_ret = NoDrvRet
    /\ drv_cfg = [ch \in DmaChannels |-> NoCfg]
    /\ drv_ops = 0

\* what a driver call leaves alone
DrvFrame ==
    /\ UNCHANGED <<irqVars, trapVars, plugVars>>
    /\ UNCHANGED <<dma_thread, dma_host, dma_ret, dma_irqs, dma_ops, dma_xfer,
                   dma_written, mem>>

\* a driver function is called: the driver's thread is in no other call
DrvCall(op, channel, ret) ==
    /\ drv_poll.pc = "none"
    /\ dma_host = "idle"
    /\ drv_ops < MaxDrvOps
    /\ drv_ops' = drv_ops + 1
    /\ drv_ret' = [op |-> op, channel |-> channel,
                   was |-> IF channel \in DOMAIN g_dma_handles
                           THEN g_dma_handles[channel].State ELSE "none",
                   ret |-> ret]

\* the whole of g_dma_channels[DMA_MAX_CHANNELS]
DrvChannels == 0..(DMA_MAX_CHANNELS - 1)

\* dma_allocate_channel() that hands out the lowest channel whether or not
\* it is allocated
dma_allocate_channel_any ==
    LET ch == CHOOSE c \in DOMAIN g_dma_channels :
                  \A d \in DOMAIN g_dma_channels : c <= d
    IN  /\ DrvCall("dma_allocate_channel", ch, ch)
        /\ g_dma_channels' = [g_dma_channels EXCEPT
                                ![ch] = [allocated |-> TRUE, busy |-> FALSE]]
        /\ UNCHANGED <<dma_priv, g_dma_handles, tick_counter, drv_poll, drv_cfg>>
        /\ DrvFrame

\* dma_allocate_channel(): the first channel not allocated, -1 when the
\* loop over all DMA_MAX_CHANNELS entries finds none (where fewer entries
\* are modelled the call is taken only while one of them is free)
dma_allocate_channel ==
    LET free == {ch \in DOMAIN g_dma_channels : ~g_dma_channels[ch].allocated}
        ch == CHOOSE c \in free : \A d \in free : c <= d
    IN  IF free /= {}
        THEN /\ DrvCall("dma_allocate_channel", ch, ch)
             /\ g_dma_channels' = [g_dma_channels EXCEPT
                                     ![ch] = [allocated |-> TRUE, busy |-> FALSE]]
             /\ UNCHANGED <<dma_priv, g_dma_handles, tick_counter, drv_poll, drv_cfg>>
             /\ DrvFrame
        ELSE /\ DOMAIN g_dma_channels = DrvChannels
             /\ DrvCall("dma_allocate_channel", -1, -1)
             /\ UNCHANGED <<dma_priv, g_dma_channels, g_dma_handles, tick_counter,
                            drv_poll, drv_cfg>>
             /\ DrvFrame

\* dma_configure_channel(channel, config)
dma_configure_channel(channel, config) ==
    LET ok == g_dma_channels[channel].allocated /\ ~g_dma_channels[channel].busy
        p1 == dma_reg_write(dma_priv, DMA_CH_SRC_REG(channel), config.src_addr)
        p2 == dma_reg_write(p1, DMA_CH_DST_REG(channel), config.dst_addr)
        p3 == dma_reg_write(p2, DMA_CH_SIZE_REG(channel), config.size)
        p4 == dma_reg_write(p3, DMA_CH_CONFIG_REG(channel), config_reg(config))
    IN  /\ DrvCall("dma_configure_channel", channel, IF ok THEN 0 ELSE -1)
        /\ dma_priv' = IF ok THEN p4 ELSE dma_priv
        /\ drv_cfg' = IF ok THEN [drv_cfg EXCEPT ![channel] = config] ELSE drv_cfg
        /\ UNCHANGED <<g_dma_channels, g_dma_handles, tick_counter, drv_poll>>
        /\ DrvFrame

\* dma_start_transfer(channel): DMA_CTRL_ENABLE | DMA_CTRL_START
dma_start_transfer(channel) ==
    LET ok == g_dma_channels[channel].allocated
    IN  /\ DrvCall("dma_start_transfer", channel, IF ok THEN 0 ELSE -1)
        /\ dma_priv' = IF ok THEN dma_reg_write(dma_priv, DMA_CH_CTRL_REG(channel), 3)
                       ELSE dma_priv
        /\ g_dma_channels' = IF ok THEN [g_dma_channels EXCEPT ![channel].busy = TRUE]
                             ELSE g_dma_channels
        /\ UNCHANGED <<g_dma_handles, tick_counter, drv_poll, drv_cfg>>
        /\ DrvFrame

\* dma_stop_transfer(channel): DMA_CTRL_ABORT, then HAL_DMA_Abort when the
\* channel has a handle (it has one while it is allocated)
dma_stop_transfer(channel) ==
    LET p1 == dma_reg_write(dma_priv, DMA_CH_CTRL_REG(channel), 4)
        a == HAL_DMA_Abort(p1, g_dma_handles[channel], channel)
        has_hdma == g_dma_channels[channel].allocated
    IN  /\ DrvCall("dma_stop_transfer", channel, 0)
        /\ g_dma_channels' = [g_dma_channels EXCEPT ![channel].busy = FALSE]
        /\ dma_priv' = IF has_hdma THEN a.priv ELSE p1
        /\ g_dma_handles' = IF has_hdma THEN [g_dma_handles EXCEPT ![channel] = a.h]
                            ELSE g_dma_handles
        /\ tick_counter' = IF has_hdma /\ a.ret = HAL_OK THEN tick_counter + 1
                           ELSE tick_counter
        /\ UNCHANGED <<drv_poll, drv_cfg>>
        /\ DrvFrame

\* dma_free_channel(channel): -1 for a channel out of range or not
\* allocated; otherwise dma_stop_transfer (DMA_CTRL_ABORT, HAL_DMA_Abort on
\* the channel's handle), then the entry is reset
dma_free_channel(channel) ==
    IF channel >= DMA_MAX_CHANNELS \/ ~g_dma_channels[channel].allocated
    THEN /\ DrvCall("dma_free_channel", channel, -1)
         /\ UNCHANGED <<dma_priv, g_dma_channels, g_dma_handles, tick_counter,
                        drv_poll, drv_cfg>>
         /\ DrvFrame
    ELSE LET p1 == dma_reg_write(dma_priv, DMA_CH_CTRL_REG(channel), 4)
             a == HAL_DMA_Abort(p1, g_dma_handles[channel], channel)
         IN  /\ DrvCall("dma_free_channel", channel, 0)
             /\ g_dma_channels' = [g_dma_channels EXCEPT
                                     ![channel] = [allocated |-> FALSE, busy |-> FALSE]]
             /\ dma_priv' = a.priv
             /\ g_dma_handles' = [g_dma_handles EXCEPT ![channel] = a.h]
             /\ tick_counter' = IF a.ret = HAL_OK THEN tick_counter + 1
                                ELSE tick_counter
             /\ UNCHANGED <<drv_poll, drv_cfg>>
             /\ DrvFrame

\* dma_is_channel_available(channel): the C bool as 0 or 1
dma_is_channel_available(channel) ==
    /\ DrvCall("dma_is_channel_available", channel,
               IF channel >= DMA_MAX_CHANNELS THEN 0
               ELSE IF g_dma_channels[channel].allocated THEN 0 ELSE 1)
    /\ UNCHANGED <<dma_priv, g_dma_channels, g_dma_handles, tick_counter,
                   drv_poll, drv_cfg>>
    /\ DrvFrame

\* a call of HAL_DMA_Start on the handle of channel ch
HalStart(ch, SrcAddress) ==
    LET r == HAL_DMA_Start(dma_priv, g_dma_handles[ch], ch, SrcAddress, DstBuf, MaxBuf)
    IN  /\ DrvCall("HAL_DMA_Start", ch, r.ret)
        /\ dma_priv' = r.priv
        /\ g_dma_handles' = [g_dma_handles EXCEPT ![ch] = r.h]
        /\ UNCHANGED <<g_dma_channels, tick_counter, drv_poll, drv_cfg>>
        /\ DrvFrame

\* a call of HAL_DMA_Start_IT on the handle of channel ch
HalStartIT(ch, SrcAddress) ==
    LET r == HAL_DMA_Start_IT(dma_priv, g_dma_handles[ch], ch, SrcAddress, DstBuf, MaxBuf)
    IN  /\ DrvCall("HAL_DMA_Start_IT", ch, r.ret)
        /\ dma_priv' = r.priv
        /\ g_dma_handles' = [g_dma_handles EXCEPT ![ch] = r.h]
        /\ UNCHANGED <<g_dma_channels, tick_counter, drv_poll, drv_cfg>>
        /\ DrvFrame

\* HAL_DMA_PollForTransfer(hdma, CompleteLevel, Timeout), up to its loop:
\* HAL_ERROR when no transfer is ongoing or the enable bit of Configuration
\* is set, else tickstart = HAL_GetTick() and the loop is entered
HAL_DMA_PollForTransfer(ch, Timeout) ==
    LET h == g_dma_handles[ch]
        no_xfer == h.State /= "HAL_DMA_STATE_BUSY"
        enabled == HAL_DMA_GET_FLAG(dma_priv, ch, 0)
    IN  /\ DrvCall("HAL_DMA_PollForTransfer", ch,
                   IF no_xfer \/ enabled THEN HAL_ERROR ELSE HAL_OK)
        /\ g_dma_handles' =
             IF no_xfer THEN [g_dma_handles EXCEPT ![ch].ErrorCode = HAL_DMA_ERROR_NO_XFER]
             ELSE IF enabled
             THEN [g_dma_handles EXCEPT ![ch].ErrorCode = HAL_DMA_ERROR_NOT_SUPPORTED]
             ELSE g_dma_handles
        /\ IF no_xfer \/ enabled THEN UNCHANGED <<tick_counter, drv_poll>>
           ELSE /\ tick_counter' = tick_counter + 1
                /\ drv_poll' = [pc |-> "loop", channel |-> ch, Timeout |-> Timeout,
                                tickstart |-> tick_counter + 1]
        /\ UNCHANGED <<dma_priv, g_dma_channels, drv_cfg>>
        /\ DrvFrame

\* one test of the loop of HAL_DMA_PollForTransfer and, the complete flag
\* being 0, one pass of its body
PollStep ==
    LET ch == drv_poll.channel
        h == g_dma_handles[ch]
        now == tick_counter + 1
        expired == now - drv_poll.tickstart > drv_poll.Timeout \/ drv_poll.Timeout = 0
        done(ret, error, state, priv) ==
            /\ drv_ret' = [drv_ret EXCEPT !.ret = ret]
            /\ g_dma_handles' = [g_dma_handles EXCEPT
                                   ![ch] = HAL_UNLOCK([h EXCEPT !.ErrorCode = error,
                                                                !.State = state])]
            /\ dma_priv' = priv
            /\ drv_poll' = NoPoll
    IN  /\ drv_poll.pc = "loop"
        /\ IF HAL_DMA_GET_FLAG(dma_priv, ch, 1) THEN
                /\ done(HAL_OK, h.ErrorCode, "HAL_DMA_STATE_READY",
                        ClearConfigurationBit(dma_priv, ch, 1))
                /\ UNCHANGED tick_counter
           ELSE IF HAL_DMA_GET_FLAG(dma_priv, ch, 2) THEN
                /\ done(HAL_ERROR, HAL_DMA_ERROR_TE, "HAL_DMA_STATE_READY",
                        ClearConfigurationBit(dma_priv, ch, 2))
                /\ UNCHANGED tick_counter
           ELSE /\ tick_counter' = now
                /\ IF expired
                   THEN done(HAL_TIMEOUT, HAL_DMA_ERROR_TIMEOUT, "HAL_DMA_STATE_TIMEOUT",
                             dma_priv)
                   ELSE UNCHANGED <<drv_ret, g_dma_handles, dma_priv, drv_poll>>
        /\ UNCHANGED <<g_dma_channels, drv_cfg, drv_ops>>
        /\ DrvFrame

\* the test fills the source buffer with 0, 1, ... and clears the destination
InitMem == [a \in BufAddrs |-> IF a < DstBuf THEN (a - SrcBuf) % 256 ELSE 0]

\* the plugin dma0 when no operation of it is modelled
DmaIdle ==
    /\ dma_priv = DmaInitPriv
    /\ dma_thread = NoDmaThread
    /\ dma_host = "idle"
    /\ dma_ret = [op |-> "none", address |-> 0, value |-> 0, ret |-> 0]
    /\ dma_irqs = <<>>
    /\ dma_ops = 0
    /\ dma_xfer = [ch \in DmaChannels |-> NoXfer]
    /\ dma_written = NoneWritten
    /\ mem = InitMem
    /\ DrvIdle

(***************************************************************************)
(* plugin_manager.c                                                        *)
(***************************************************************************)
find_plugin(name) == \E k \in 1..Len(g_plugins) : g_plugins[k] = name

MSG_REG_READ == 3
MSG_REG_WRITE == 4

NoResponse == [result |-> 0, error |-> 0]

\* handle_sim_message(msg, &response): the return value, the response, the
\* plugin operation it called and the plugin's private data afterwards
handle_sim_message(msg) ==
    IF ~find_plugin(msg.module) THEN
        [ret |-> -1, response |-> [result |-> 0, error |-> -1],
         plugin_op |-> "none", priv |-> uart_priv]
    ELSE IF msg.type = MSG_REG_READ THEN
        LET r == uart_reg_read(uart_priv, msg.address) IN
        [ret |-> 0, response |-> [result |-> r.ret, error |-> 0],
         plugin_op |-> "reg_read", priv |-> r.priv]
    ELSE
        LET w == uart_reg_write(uart_priv, msg.address, msg.value) IN
        [ret |-> w.ret,
         response |-> [result |-> w.ret, error |-> IF w.ret < 0 THEN -1 ELSE 0],
         plugin_op |-> "reg_write", priv |-> w.priv]

g_plugin_count == Len(g_plugins)

OtherPlugins(n) == [k \in 1..n |-> "plug" \o ToString(k)]

\* model bound: the plugins registered under the names of the model
LivePlugins == Cardinality({k \in 1..g_plugin_count : g_plugins[k] \in PluginNames})

\* register_plugin(plugin) for a plugin object named name whose init
\* succeeds or (malloc) fails
register_plugin(name, init_ok) ==
    /\ uart_host = "idle"
    /\ LivePlugins < MaxPlugAdds
    /\ IF g_plugin_count >= MAX_PLUGINS THEN
            /\ rv' = -1
            /\ UNCHANGED <<g_plugins, uart_priv>>
       ELSE
            /\ g_plugins' = Append(g_plugins, name)
            /\ rv' = IF init_ok THEN 0 ELSE -1
            \* uart_priv is the private data of the plugin find_plugin("uart0") finds
            /\ uart_priv' = IF name = "uart0" /\ init_ok /\ ~find_plugin("uart0")
                            THEN UartInitPriv ELSE uart_priv
    /\ UNCHANGED <<g_reg_mappings, g_msg_id_counter, fault_tmp, msg_ids, drv, exit_code, rip, gregs, trap>>
    /\ UNCHANGED <<g_interrupt_bindings, g_signal_mappings, sig_pending, sig_frames,
                   triggered, invoked, disturbed>>
    /\ UNCHANGED <<plugVars, dmaVars>>

\* the cleanup calls of cleanup_plugins, in call order: for (i = 0; i < plugin_count; i++)
cleanup_plugins_calls == [k \in 1..g_plugin_count |-> g_plugins[k]]

\* sim_interface_cleanup(): drops the address map and the signal map, then
\* cleanup_plugins()
sim_interface_cleanup ==
    /\ uart_host = "idle"
    /\ uart_thread.pc = "none"
    /\ g_plugin_count > 0
    /\ g_reg_mappings' = <<>>
    /\ g_signal_mappings' = <<>>
    /\ cleanup_log' = cleanup_plugins_calls
    /\ g_plugins' = <<>>
    /\ UNCHANGED <<g_msg_id_counter, fault_tmp, msg_ids, uart_priv, drv, exit_code, rip, gregs, trap>>
    /\ UNCHANGED <<g_interrupt_bindings, sig_pending, sig_frames, rv,
                   triggered, invoked, disturbed>>
    /\ UNCHANGED <<uart_thread, uart_host, uart_ret, uart_irqs, uart_ops, after_reset>>
    /\ UNCHANGED dmaVars

(***************************************************************************)
(* sim_interface.c: the address map and the trap engine                    *)
(***************************************************************************)
g_reg_mapping_count == Len(g_reg_mappings)

OtherRegMappings(n) ==
    [k \in 1..n |-> [start_addr |-> UART_BASE + 65536 + k * 4096,
                     end_addr |-> UART_BASE + 65536 + k * 4096 + 768,
                     module |-> "dma0"]]

\* model bound: the ranges added at the addresses of the model
LiveRegMappings ==
    Cardinality({k \in 1..g_reg_mapping_count :
                    g_reg_mappings[k].start_addr < UART_BASE + 65536})

\* a lookup that also takes the end address of a range as part of it
find_register_mapping_closed(addr) ==
    LET hits == {k \in 1..g_reg_mapping_count :
                    /\ addr >= g_reg_mappings[k].start_addr
                    /\ addr <= g_reg_mappings[k].end_addr}
    IN  IF hits = {} THEN 0 ELSE CHOOSE k \in hits : \A j \in hits : k <= j

\* the index of the first range holding addr, 0 when none does:
\* addr >= start_addr && addr < (char*)start_addr + (end_addr - start_addr)
find_register_mapping(addr) ==
    LET hits == {k \in 1..g_reg_mapping_count :
                    /\ addr >= g_reg_mappings[k].start_addr
                    /\ addr < g_reg_mappings[k].start_addr
                              + (g_reg_mappings[k].end_addr - g_reg_mappings[k].start_addr)}
    IN  IF hits = {} THEN 0 ELSE CHOOSE k \in hits : \A j \in hits : k <= j

\* mmap(NULL, size, PROT_NONE, ...) may fail
add_register_mapping(start_addr, end_addr, module, mmap_ok) ==
    /\ drv = "run"
    /\ LiveRegMappings < MaxRegAdds
    /\ IF g_reg_mapping_count >= MAX_REG_MAPPINGS THEN
            /\ rv' = -1
            /\ UNCHANGED g_reg_mappings
       ELSE IF ~mmap_ok THEN
            /\ rv' = -1
            /\ UNCHANGED g_reg_mappings
       ELSE
            /\ g_reg_mappings' =
                 Append(g_reg_mappings,
                        [start_addr |-> start_addr, end_addr |-> end_addr, module |-> module])
            /\ rv' = 0
    /\ UNCHANGED <<g_msg_id_counter, fault_tmp, msg_ids, g_plugins, uart_priv, drv, exit_code, rip, gregs, trap>>
    /\ UNCHANGED <<g_interrupt_bindings, g_signal_mappings, sig_pending, sig_frames,
                   triggered, invoked, disturbed>>
    /\ UNCHANGED <<plugVars, dmaVars>>

NoMsg == [type |-> 0, module |-> "", address |-> 0, value |-> 0, id |-> 0]
NoTrap == [insn |-> <<>>, addr |-> 0, msg |-> NoMsg, response |-> NoResponse,
           plugin_op |-> "none"]

\* what segfault_handler adds to RIP for the instruction at RIP
InsnAdvance(insn) ==
    CASE insn[1] = 139 -> 2
      [] insn[1] = 137 -> 2
      [] insn[1] = 199 -> 6
      [] OTHER -> 0

\* the value segfault_handler puts in msg.value: (uint32_t)gregs[REG_RAX] for
\* opcode 0x89, *(uint32_t *)(rip + 2) for opcode 0xC7 (bytes past the end
\* of the instruction belong to the next one: here taken as 0)
StoreValue(insn) ==
    IF insn[1] = 137 THEN gregs["RAX"]
    ELSE LE32(insn \o <<0, 0, 0, 0>>, 3)

\* segfault_handler(SIGSEGV, si, ctx) with si->si_addr = fault_addr and the
\* bytes of insn at RIP
segfault_handler(insn, fault_addr) ==
    LET m == find_register_mapping(fault_addr) IN
    IF m = 0 THEN
        \* "Segfault at unknown address": exit(1)
        /\ drv' = "exited"
        /\ exit_code' = 1
        /\ trap' = [NoTrap EXCEPT !.insn = insn, !.addr = fault_addr]
        /\ UNCHANGED <<g_msg_id_counter, fault_tmp, msg_ids, uart_priv, rip, gregs>>
    ELSE
        LET msg0 == [NoMsg EXCEPT !.module = g_reg_mappings[m].module,
                                  !.address = fault_addr,
                                  !.id = g_msg_id_counter]
            msg  == IF insn[1] = 139 THEN [msg0 EXCEPT !.type = MSG_REG_READ]
                    ELSE [msg0 EXCEPT !.type = MSG_REG_WRITE, !.value = StoreValue(insn)]
            r    == handle_sim_message(msg)
        IN
        /\ g_msg_id_counter' = g_msg_id_counter + 1
        /\ msg_ids' = Append(msg_ids, g_msg_id_counter)
        /\ UNCHANGED fault_tmp
        /\ IF insn[1] \notin {139, 137, 199} THEN
                \* "Unsupported instruction ... treating as read": nothing else is done
                /\ drv' = "resumed"
                /\ trap' = [NoTrap EXCEPT !.insn = insn, !.addr = fault_addr, !.msg = msg0]
                /\ UNCHANGED <<exit_code, uart_priv, rip, gregs>>
           ELSE IF r.ret /= 0 THEN
                \* "Failed to handle register read/write": exit(1)
                /\ drv' = "exited"
                /\ exit_code' = 1
                /\ uart_priv' = r.priv
                /\ trap' = [insn |-> insn, addr |-> fault_addr, msg |-> msg,
                            response |-> r.response, plugin_op |-> r.plugin_op]
                /\ UNCHANGED <<rip, gregs>>
           ELSE
                /\ drv' = "resumed"
                /\ uart_priv' = r.priv
                /\ gregs' = IF insn[1] = 139
                            THEN [gregs EXCEPT !["RAX"] = r.response.result]
                            ELSE gregs
                /\ rip' = rip + InsnAdvance(insn)
                /\ trap' = [insn |-> insn, addr |-> fault_addr, msg |-> msg,
                            response |-> r.response, plugin_op |-> r.plugin_op]
                /\ UNCHANGED exit_code

TrapFrame ==
    /\ UNCHANGED <<g_reg_mappings, g_plugins>>
    /\ UNCHANGED <<irqVars, plugVars, dmaVars>>

\* an ordinary instruction of the driver leaves v in register r
DriverCompute(r, v) ==
    /\ drv = "run"
    /\ gregs' = [gregs EXCEPT ![r] = v]
    /\ UNCHANGED <<g_reg_mappings, g_msg_id_counter, fault_tmp, msg_ids, g_plugins, uart_priv,
                   drv, exit_code, rip, trap>>
    /\ UNCHANGED <<irqVars, plugVars, dmaVars>>

\* the driver executes insn at RIP, which accesses fault_addr: no page is
\* mapped there, the kernel raises SIGSEGV on the driver thread
Access(insn, fault_addr) ==
    /\ drv = "run"
    /\ g_msg_id_counter <= MaxFaults
    /\ segfault_handler(insn, fault_addr)
    /\ TrapFrame

\* the handler returned with RIP past the instruction: the driver goes on
\* (and reaches its next memory-mapped access, in a loop at CodeBase)
Continue ==
    /\ drv = "resumed"
    /\ rip = CodeBase + Len(trap.insn)
    /\ drv' = "run"
    /\ rip' = CodeBase
    /\ trap' = NoTrap
    /\ UNCHANGED <<g_msg_id_counter, fault_tmp, msg_ids, uart_priv, exit_code, gregs>>
    /\ TrapFrame

\* the handler returned with RIP unchanged: the same instruction runs
\* again and faults again
Refault ==
    /\ drv = "resumed"
    /\ rip = CodeBase
    /\ g_msg_id_counter <= MaxFaults
    /\ segfault_handler(trap.insn, trap.addr)
    /\ TrapFrame

\* the handler returned with RIP inside the instruction: the CPU decodes
\* from the middle of it
Derail ==
    /\ drv = "resumed"
    /\ rip \notin {CodeBase, CodeBase + Len(trap.insn)}
    /\ drv' = "derailed"
    /\ UNCHANGED <<g_msg_id_counter, fault_tmp, msg_ids, uart_priv, exit_code, rip, gregs, trap>>
    /\ TrapFrame

\* msg.id = g_msg_id_counter++ in segfault_handler, entered on the thread
\* that faulted; the counter is a plain static uint32_t, so the statement is
\* a load and a store, and handlers on two threads run it unsynchronised.
\* The load:
LoadMsgId(t) ==
    /\ fault_tmp[t] = 0
    /\ Len(msg_ids) + Cardinality({u \in Threads : fault_tmp[u] /= 0}) < MaxRequests
    /\ fault_tmp' = [fault_tmp EXCEPT ![t] = g_msg_id_counter]
    /\ UNCHANGED <<g_msg_id_counter, msg_ids, uart_priv, drv, exit_code, rip, gregs, trap>>
    /\ TrapFrame

\* the store of the incremented value; the request gets the value loaded
StoreMsgId(t) ==
    /\ fault_tmp[t] /= 0
    /\ g_msg_id_counter' = fault_tmp[t] + 1
    /\ msg_ids' = Append(msg_ids, fault_tmp[t])
    /\ fault_tmp' = [fault_tmp EXCEPT ![t] = 0]
    /\ UNCHANGED <<uart_priv, drv, exit_code, rip, gregs, trap>>
    /\ TrapFrame

\* the tables and the driver before any operation of the trap path
TrapIdle ==
    /\ g_msg_id_counter = 1
    /\ fault_tmp = [t \in Threads |-> 0]
    /\ msg_ids = <<>>
    /\ g_plugins = <<"uart0">>
    /\ uart_priv = UartInitPriv
    /\ drv = "run"
    /\ exit_code = 0
    /\ rip = CodeBase
    /\ gregs = [r \in {"RAX", "RDX"} |-> 1]
    /\ trap = NoTrap

IrqIdle ==
    /\ sig_pending = [s \in Signals |-> 0]
    /\ sig_frames = [t \in Threads |-> <<>>]
    /\ rv = 0
    /\ triggered = [i \in Irqs |-> 0]
    /\ invoked = [i \in Irqs |-> 0]
    /\ disturbed = [i \in Irqs |-> FALSE]

PlugIdle ==
    /\ cleanup_log = <<>>
    /\ uart_thread = NoThread
    /\ uart_host = "idle"
    /\ uart_ret = NoRet
    /\ uart_irqs = [i \in Irqs |-> 0]
    /\ uart_ops = 0
    /\ after_reset = FALSE

\* ranges and modules add_register_mapping is called with: the map of
\* main.c for uart0, and a range overlapping it for a module with no plugin
MapStarts == {UART_BASE, UART_BASE + 64}
MapEnds == {UART_BASE + 80, UART_BASE + 4096}
MapModules == {"uart0", "uart9"}
FaultAddrs == {UART_BASE + o : o \in UartOffsets}

(***************************************************************************)
(* SpecTrap: the address map and the trap engine.                          *)
(***************************************************************************)
InitTrap ==
    /\ g_reg_mappings \in {<<>>, OtherRegMappings(MAX_REG_MAPPINGS - 1)}
    /\ TrapIdle
    /\ g_interrupt_bindings = <<>>
    /\ g_signal_mappings = <<>>
    /\ IrqIdle
    /\ PlugIdle
    /\ DmaIdle

NextTrap ==
    \/ \E s \in MapStarts, e \in MapEnds, m \in MapModules, ok \in BOOLEAN :
          add_register_mapping(s, e, m, ok)
    \/ \E r \in {"RAX", "RDX"}, v \in Values : DriverCompute(r, v)
    \/ \E insn \in Insns, a \in FaultAddrs : Access(insn, a)
    \/ Continue
    \/ Refault
    \/ Derail

SpecTrap == InitTrap /\ [][NextTrap]_vars

(***************************************************************************)
(* SpecReg: the plugin registry.                                           *)
(***************************************************************************)
InitReg ==
    /\ g_plugins \in {<<>>, OtherPlugins(MAX_PLUGINS - 1)}
    /\ g_reg_mappings \in {<<>>, OtherRegMappings(2)}
    /\ g_msg_id_counter = 1
    /\ fault_tmp = [t \in Threads |-> 0]
    /\ msg_ids = <<>>
    /\ uart_priv = UartInitPriv
    /\ drv = "run"
    /\ exit_code = 0
    /\ rip = CodeBase
    /\ gregs = [r \in {"RAX", "RDX"} |-> 1]
    /\ trap = NoTrap
    /\ g_interrupt_bindings = <<>>
    /\ g_signal_mappings \in {<<>>, OtherSignalMappings(2)}
    /\ IrqIdle
    /\ PlugIdle
    /\ DmaIdle

NextReg ==
    \/ \E name \in PluginNames, ok \in BOOLEAN : register_plugin(name, ok)
    \/ sim_interface_cleanup

SpecReg == InitReg /\ [][NextReg]_vars

(***************************************************************************)
(* SpecUart: the UART plugin uart0, the thread calling it and its monitor  *)
(* thread.                                                                 *)
(***************************************************************************)
InitUart ==
    /\ g_reg_mappings = <<>>
    /\ TrapIdle
    /\ g_interrupt_bindings = <<>>
    /\ g_signal_mappings = <<>>
    /\ IrqIdle
    /\ PlugIdle
    /\ DmaIdle

NextUart ==
    \/ \E o \in UartWriteOffsets, v \in UartValues, ok \in BOOLEAN : UartRegWrite(o, v, ok)
    \/ \E o \in UartReadOffsets : UartRegRead(o)
    \/ \E a \in {"RESET_ASSERT", "RESET_DEASSERT"} : UartReset(a)
    \/ uart_cleanup
    \/ UartJoinReturn
    \/ UartThreadTop
    \/ UartThreadCheck
    \/ UartThreadAppend

SpecUart == InitUart /\ [][NextUart]_vars

(***************************************************************************)
(* SpecRace: the UART monitor thread statement by statement against the    *)
(* thread that serves the driver's register accesses (no lock is taken on  *)
(* either side).                                                           *)
(***************************************************************************)
InitRace == InitUart

NextRace ==
    \/ \E v \in UartValues, ok \in BOOLEAN : UartRegWrite(48, v, ok)
    \/ \E o \in {0, 24} : UartRegRead(o)
    \/ UartJoinReturn
    \/ UartThreadTop
    \/ UartThreadCheck
    \/ UartThreadStore
    \/ UartThreadFlag

SpecRace == InitRace /\ [][NextRace]_vars

(***************************************************************************)
(* SpecTick: the DMA monitor thread statement by statement against the     *)
(* thread that serves the driver's writes to the control and size          *)
(* registers (no lock is taken on either side).                            *)
(***************************************************************************)
TickAddrs == {dma_channel_base_addr + ch * DMA_CH_OFFSET + o :
                ch \in DmaChannels, o \in {0, 16}}

InitTick ==
    /\ g_reg_mappings = <<>>
    /\ TrapIdle
    /\ g_interrupt_bindings = <<>>
    /\ g_signal_mappings = <<>>
    /\ IrqIdle
    /\ PlugIdle
    /\ dma_priv = DmaInitPriv
    /\ dma_thread = [pc |-> "top", i |-> 0, created |-> TRUE,
                     snap |-> DmaInitPriv, ops0 |-> 0]
    /\ dma_host = "idle"
    /\ dma_ret = [op |-> "none", address |-> 0, value |-> 0, ret |-> 0]
    /\ dma_irqs = <<>>
    /\ dma_ops = 0
    /\ dma_xfer = [ch \in DmaChannels |-> IF ch = 0 THEN NewXfer(17) ELSE NoXfer]
    /\ dma_written = NoneWritten
    /\ mem = InitMem
    /\ DrvIdle

NextTick ==
    \/ \E a \in TickAddrs, v \in DmaValues : DmaRegWrite(a, v)
    \/ DmaThreadTop
    \/ DmaTickTest
    \/ DmaTickMove
    \/ DmaTickCheck
    \/ DmaTickComplete

SpecTick == InitTick /\ [][NextTick]_vars

(***************************************************************************)
(* SpecIds: the request ids handed out by segfault_handler to the driver   *)
(* threads that fault.                                                     *)
(***************************************************************************)
InitIds == InitTrap

NextIds ==
    \/ \E t \in Threads : LoadMsgId(t)
    \/ \E t \in Threads : StoreMsgId(t)

SpecIds == InitIds /\ [][NextIds]_vars

(***************************************************************************)
(* SpecDmaLive: dma0 registered with its monitor thread running, the host  *)
(* writing control and size registers and resetting the plugin.  The       *)
(* monitor thread, once created, is scheduled again and again (it sleeps   *)
(* one second per pass), and pthread_join returns once the thread exited.  *)
(***************************************************************************)
InitDmaLive ==
    /\ g_reg_mappings = <<>>
    /\ TrapIdle
    /\ g_interrupt_bindings = <<>>
    /\ g_signal_mappings = <<>>
    /\ IrqIdle
    /\ PlugIdle
    /\ dma_priv = DmaInitPriv
    /\ dma_thread = [pc |-> "top", i |-> 0, created |-> TRUE]
    /\ dma_host = "idle"
    /\ dma_ret = [op |-> "none", address |-> 0, value |-> 0, ret |-> 0]
    /\ dma_irqs = <<>>
    /\ dma_ops = 0
    /\ dma_xfer = [ch \in DmaChannels |-> IF ch = 0 THEN NewXfer(17) ELSE NoXfer]
    /\ dma_written = NoneWritten
    /\ mem = InitMem
    /\ DrvIdle

NextDmaLive ==
    \/ \E a \in TickAddrs, v \in DmaValues : DmaRegWrite(a, v)
    \/ \E a \in {"RESET_ASSERT", "RESET_DEASSERT"}, ok \in BOOLEAN : DmaReset(a, ok)
    \/ DmaJoinReturn
    \/ DmaThreadTop
    \/ DmaThreadScan

SpecDmaLive ==
    /\ InitDmaLive
    /\ [][NextDmaLive]_vars
    /\ WF_vars(DmaThreadTop)
    /\ WF_vars(DmaThreadScan)
    /\ WF_vars(DmaJoinReturn)

(***************************************************************************)
(* SpecDmaIrq: main.c's signal table installed, the driver's dma_init      *)
(* done, dma0 with its monitor thread running and both channels            *)
(* configured with the interrupt enable; the driver re-enables channels.   *)
(***************************************************************************)
\* main.c: signal_mappings[]
signal_mappings ==
    <<[signal_num |-> 34, module |-> "uart0", irq_num |-> 5],
      [signal_num |-> 35, module |-> "uart0", irq_num |-> 6],
      [signal_num |-> 36, module |-> "uart1", irq_num |-> 5],
      [signal_num |-> 37, module |-> "uart1", irq_num |-> 6],
      [signal_num |-> 38, module |-> "uart2", irq_num |-> 5],
      [signal_num |-> 39, module |-> "uart2", irq_num |-> 6],
      [signal_num |-> 40, module |-> "dma0", irq_num |-> 8],
      [signal_num |-> 41, module |-> "dma0", irq_num |-> 9],
      [signal_num |-> 42, module |-> "dma0", irq_num |-> 10],
      [signal_num |-> 43, module |-> "dma1", irq_num |-> 8],
      [signal_num |-> 44, module |-> "dma2", irq_num |-> 8]>>

StaticSignals == {signal_mappings[k].signal_num : k \in 1..Len(signal_mappings)}
StaticIrqs == {signal_mappings[k].irq_num : k \in 1..Len(signal_mappings)}

InitDmaIrq ==
    /\ g_interrupt_bindings =
         <<[irq_num |-> 8, handler |-> "dma_interrupt_handler", enabled |-> 1]>>
    /\ g_signal_mappings = signal_mappings
    /\ sig_pending = [s \in StaticSignals |-> 0]
    /\ sig_frames = [t \in Threads |-> <<>>]
    /\ rv = 0
    /\ triggered = [i \in StaticIrqs |-> 0]
    /\ invoked = [i \in StaticIrqs |-> 0]
    /\ disturbed = [i \in StaticIrqs |-> FALSE]
    /\ g_reg_mappings = <<>>
    /\ TrapIdle
    /\ PlugIdle
    /\ dma_priv = DriverInitPriv([DmaInitPriv EXCEPT !.channels[1] = CopyChannel])
    /\ dma_thread = [pc |-> "top", i |-> 0, created |-> TRUE]
    /\ dma_host = "idle"
    /\ dma_ret = [op |-> "none", address |-> 0, value |-> 0, ret |-> 0]
    /\ dma_irqs = <<>>
    /\ dma_ops = 0
    /\ dma_xfer = [ch \in DmaChannels |-> IF ch = 0 THEN NewXfer(17) ELSE NoXfer]
    /\ dma_written = NoneWritten
    /\ mem = InitMem
    /\ g_dma_channels = [ch \in DmaChannels |-> [allocated |-> FALSE, busy |-> FALSE]]
    /\ g_dma_handles = [ch \in DmaChannels |-> HAL_DMA_Init(DmaInitPriv, ch).h]
    /\ tick_counter = 0
    /\ drv_poll = NoPoll
    /\ drv_ret = NoDrvRet
    /\ drv_cfg = [ch \in DmaChannels |-> NoCfg]
    /\ drv_ops = 0

NextDmaIrq ==
    \/ \E ch \in DmaChannels :
         DmaRegWrite(dma_channel_base_addr + ch * DMA_CH_OFFSET, 1)
    \/ DmaThreadTop
    \/ DmaThreadScanIrq
    \/ \E t \in Threads, sig \in StaticSignals : interrupt_signal_handler(t, sig)

SpecDmaIrq == InitDmaIrq /\ [][NextDmaIrq]_vars

(***************************************************************************)
(* SpecDma: the DMA plugin dma0, the thread calling it and its monitor     *)
(* thread.                                                                 *)
(***************************************************************************)
InitDma ==
    /\ g_reg_mappings = <<>>
    /\ TrapIdle
    /\ g_interrupt_bindings = <<>>
    /\ g_signal_mappings = <<>>
    /\ IrqIdle
    /\ PlugIdle
    \* after dma_init, pthread_create having succeeded or failed; channel 1
    \* untouched or already written by the driver
    /\ \E create_ok \in BOOLEAN, c1 \in {ZeroChannel, CopyChannel} :
         /\ dma_priv = [DmaInitPriv EXCEPT !.simulation_running = create_ok,
                                           !.channels[1] = c1]
         /\ dma_thread = IF create_ok THEN [pc |-> "top", i |-> 0, created |-> TRUE]
                         ELSE NoDmaThread
    /\ dma_host = "idle"
    /\ dma_ret = [op |-> "none", address |-> 0, value |-> 0, ret |-> 0]
    /\ dma_irqs = <<>>
    /\ dma_ops = 0
    /\ dma_xfer = [ch \in DmaChannels |-> IF ch = 0 THEN NewXfer(17) ELSE NoXfer]
    /\ dma_written = NoneWritten
    /\ mem = InitMem
    /\ DrvIdle

NextDma ==
    \/ \E a \in DmaAddrs, v \in DmaValues : DmaRegWrite(a, v)
    \/ \E a \in DmaAddrs : DmaRegRead(a)
    \/ \E a \in {"CLOCK_TICK", "CLOCK_ENABLE"} : dma_clock(a)
    \/ \E a \in {"RESET_ASSERT", "RESET_DEASSERT"}, ok \in BOOLEAN : DmaReset(a, ok)
    \/ dma_cleanup
    \/ DmaJoinReturn
    \/ DmaThreadTop
    \/ DmaThreadScan

SpecDma == InitDma /\ [][NextDma]_vars

(***************************************************************************)
(* SpecDrv: the DMA driver (legacy channel API and HAL) on the plugin      *)
(* dma0 and its monitor thread.                                            *)
(***************************************************************************)
\* the timeouts the callers pass, in ticks
PollTimeouts == {0, 1}

\* after dma_init of the plugin and dma_init of the driver
InitDrv ==
    /\ g_reg_mappings = <<>>
    /\ TrapIdle
    /\ g_interrupt_bindings = <<>>
    /\ g_signal_mappings = <<>>
    /\ IrqIdle
    /\ PlugIdle
    /\ \E create_ok \in BOOLEAN :
         /\ dma_priv = DriverInitPriv([DmaInitPriv EXCEPT !.simulation_running = create_ok])
         /\ dma_thread = IF create_ok THEN [pc |-> "top", i |-> 0, created |-> TRUE]
                         ELSE NoDmaThread
    /\ dma_host = "idle"
    /\ dma_ret = [op |-> "none", address |-> 0, value |-> 0, ret |-> 0]
    /\ dma_irqs = <<>>
    /\ dma_ops = 0
    /\ dma_xfer = [ch \in DmaChannels |-> NoXfer]
    /\ dma_written = NoneWritten
    /\ mem = InitMem
    /\ g_dma_channels = [ch \in DmaChannels |-> [allocated |-> FALSE, busy |-> FALSE]]
    /\ g_dma_handles = [ch \in DmaChannels |-> HAL_DMA_Init(DmaInitPriv, ch).h]
    /\ tick_counter = 0
    /\ drv_poll = NoPoll
    /\ drv_ret = NoDrvRet
    /\ drv_cfg = [ch \in DmaChannels |-> NoCfg]
    /\ drv_ops = 0

NextDrv ==
    \/ dma_allocate_channel
    \/ \E ch \in DmaChannels, config \in DrvConfigs : dma_configure_channel(ch, config)
    \/ \E ch \in DmaChannels : dma_start_transfer(ch)
    \/ \E ch \in DmaChannels : dma_stop_transfer(ch)
    \/ \E ch \in DmaChannels, s \in {SrcBuf, SrcBuf + 1} : HalStart(ch, s)
    \/ \E ch \in DmaChannels, s \in {SrcBuf, SrcBuf + 1} : HalStartIT(ch, s)
    \/ \E ch \in DmaChannels, T \in PollTimeouts : HAL_DMA_PollForTransfer(ch, T)
    \/ PollStep
    \/ DmaThreadTop
    \/ DmaThreadScan

SpecDrv == InitDrv /\ [][NextDrv]_vars

(***************************************************************************)
(* the driver's channel table alone: all DMA_MAX_CHANNELS entries, the      *)
(* first k of them handed out by k calls of dma_allocate_channel            *)
(***************************************************************************)
InitAlloc ==
    /\ g_reg_mappings = <<>>
    /\ TrapIdle
    /\ g_interrupt_bindings = <<>>
    /\ g_signal_mappings = <<>>
    /\ IrqIdle
    /\ PlugIdle
    /\ dma_priv = DriverInitPriv([DmaInitPriv EXCEPT !.simulation_running = FALSE])
    /\ dma_thread = NoDmaThread
    /\ dma_host = "idle"
    /\ dma_ret = [op |-> "none", address |-> 0, value |-> 0, ret |-> 0]
    /\ dma_irqs = <<>>
    /\ dma_ops = 0
    /\ dma_xfer = [ch \in DmaChannels |-> NoXfer]
    /\ dma_written = NoneWritten
    /\ mem = InitMem
    /\ \E k \in 0..DMA_MAX_CHANNELS :
         g_dma_channels = [ch \in DrvChannels |->
                              [allocated |-> ch < k, busy |-> FALSE]]
    /\ g_dma_handles = [ch \in DrvChannels |-> HAL_DMA_Init(DmaInitPriv, ch).h]
    /\ tick_counter = 0
    /\ drv_poll = NoPoll
    /\ drv_ret = NoDrvRet
    /\ drv_cfg = [ch \in DmaChannels |-> NoCfg]
    /\ drv_ops = 0

NextAlloc ==
    \/ dma_allocate_channel
    \/ \E ch \in 0..DMA_MAX_CHANNELS : dma_free_channel(ch)
    \/ \E ch \in 0..DMA_MAX_CHANNELS : dma_is_channel_available(ch)

SpecAlloc == InitAlloc /\ [][NextAlloc]_vars

(***************************************************************************)
(* SpecLife: the life cycle of the plugins uart0 and dma0: their monitor   *)
(* threads are started, reset and cleanup stop and join them, and cleanup  *)
(* is called again.                                                        *)
(***************************************************************************)
InitLife == InitDma

NextLife ==
    \/ \E v \in {0, 1}, ok \in BOOLEAN : UartRegWrite(48, v, ok)
    \/ \E a \in {"RESET_ASSERT", "RESET_DEASSERT"} : UartReset(a)
    \/ uart_cleanup
    \/ UartJoinReturn
    \/ UartThreadTop
    \/ UartThreadCheck
    \/ UartThreadAppend
    \/ \E a \in {"RESET_ASSERT", "RESET_DEASSERT"}, ok \in BOOLEAN : DmaReset(a, ok)
    \/ dma_cleanup
    \/ DmaJoinReturn
    \/ DmaThreadTop
    \/ DmaThreadScan

SpecLife == InitLife /\ [][NextLife]_vars

(***************************************************************************)
(* SpecIrq: the interrupt path.                                            *)
(***************************************************************************)
InitIrq ==
    \* after interrupt_manager_init, or with all but one slot taken by other IRQs
    /\ \E full \in BOOLEAN :
         /\ g_interrupt_bindings =
              IF full THEN OtherBindings(MAX_INTERRUPTS - 1) ELSE <<>>
         /\ g_signal_mappings =
              IF full THEN OtherSignalMappings(MAX_SIGNAL_MAPPINGS - 1) ELSE <<>>
    /\ IrqIdle
    /\ g_reg_mappings = <<>>
    /\ TrapIdle
    /\ PlugIdle
    /\ DmaIdle

NextIrq ==
    \/ \E irq \in Irqs, h \in Handlers : register_interrupt_handler(irq, h)
    \/ \E irq \in Irqs : enable_interrupt(irq)
    \/ \E irq \in Irqs : disable_interrupt(irq)
    \/ \E s \in Signals, m \in Modules, irq \in Irqs : add_signal_mapping(s, m, irq)
    \/ \E m \in Modules, irq \in Irqs : trigger_interrupt(m, irq)
    \/ \E t \in Threads, s \in Signals : interrupt_signal_handler(t, s)
    \/ \E t \in Threads : HandlerCall(t)
    \/ \E t \in Threads : HandlerReturn(t)

SpecIrq == InitIrq /\ [][NextIrq]_vars

(***************************************************************************)
(* Claims about the interrupt path (checked under SpecIrq).                *)
(***************************************************************************)
\* disable_interrupt(i) has returned 0 and neither enable_interrupt(i) nor
\* register_interrupt_handler(i, h) has succeeded since: these are the only
\* writers of .enabled, and an entry is created enabled.
Gated(i) ==
    /\ FindBinding(i) /= 0
    /\ g_interrupt_bindings[FindBinding(i)].enabled = 0

\* C1: for every IRQ i with a registered handler, no invocation of i's handler
\* begins after disable_interrupt(i) has returned and before the next
\* enable_interrupt(i) or register_interrupt_handler(i, h).
C1_NoInvocationWhileDisabled ==
    [][\A i \in Irqs : invoked'[i] > invoked[i] => ~Gated(i)]_vars

Quiescent ==
    /\ \A s \in Signals : sig_pending[s] = 0
    /\ \A t \in Threads : sig_frames[t] = <<>>

\* C8: k calls of trigger(module, irq) that find a binding, each issued while
\* irq has a registered handler and is enabled (and irq is never disabled),
\* lead to exactly k invocations of the handler of irq once every signal has
\* been delivered and handled.
C8_OneInvocationPerTrigger ==
    Quiescent => \A i \in Irqs : ~disturbed[i] => invoked[i] = triggered[i]

\* C9: register_interrupt_handler(irq, h) with h non-null, for an IRQ that
\* already has an entry, returns 0, leaves the number of entries unchanged,
\* and leaves that entry with handler h and enabled, in every table state.
C9_ReplaceInPlace ==
    [][\A irq \in Irqs, h \in Handlers \ {"NULL"} :
          (FindBinding(irq) /= 0 /\ register_interrupt_handler(irq, h)) =>
              /\ rv' = 0
              /\ Len(g_interrupt_bindings') = Len(g_interrupt_bindings)
              /\ g_interrupt_bindings'[FindBinding(irq)].handler = h
              /\ g_interrupt_bindings'[FindBinding(irq)].enabled = 1]_vars

MappingsOfSignal(sig) ==
    {k \in 1..g_signal_mapping_count : g_signal_mappings[k].signal_num = sig}

\* C10: each signal number appears in at most one binding of the signal map,
\* and a delivery of a bound signal resolves to the binding added last for it.
C10_SignalBoundOnce ==
    \A sig \in Signals :
        /\ Cardinality(MappingsOfSignal(sig)) <= 1
        /\ MappingsOfSignal(sig) /= {} =>
              \A k \in MappingsOfSignal(sig) : k <= ResolveSignal(sig)

(***************************************************************************)
(* Properties of the address map and the trap engine (SpecTrap).           *)
(***************************************************************************)
\* addr lies in a registered range [start, end)
InSomeRange(addr) ==
    \E k \in 1..g_reg_mapping_count :
        g_reg_mappings[k].start_addr <= addr /\ addr < g_reg_mappings[k].end_addr

\* the handler has serviced the trapped instruction and returned to the driver
Serviced(opcodes) ==
    /\ drv = "resumed"
    /\ trap.insn /= <<>>
    /\ trap.insn[1] \in opcodes

\* C2: after a trapped 32-bit load (opcode 8B) from a mapped address a, the
\* register named by the reg field of the instruction's ModRM byte holds
\* the value the owning plugin's read(a) returns.
C2_LoadReachesEncodedDestination ==
    Serviced({139}) =>
        gregs[GPR(ModRM_reg(trap.insn[2]))] = uart_reg_read(uart_priv, trap.addr).ret

\* C3: the value passed to the plugin's write is, for a register store
\* (opcode 89), the low 32 bits of the register named by the reg field of
\* the ModRM byte, and for an immediate store (opcode C7) the 32-bit
\* immediate that ends the instruction.
C3_StoreValueFromEncodedSource ==
    (trap.plugin_op = "reg_write") =>
        /\ trap.insn[1] = 137 => trap.msg.value = gregs[GPR(ModRM_reg(trap.insn[2]))]
        /\ trap.insn[1] = 199 => trap.msg.value = LE32(trap.insn, Len(trap.insn) - 3)

\* C4: after servicing a trapped load or store the instruction pointer is
\* past the instruction by exactly its length in bytes.
C4_RipAdvancedByInsnLength ==
    Serviced({139, 137, 199}) => rip = CodeBase + Len(trap.insn)

PairwiseDisjoint ==
    \A j, k \in 1..g_reg_mapping_count :
        j /= k =>
            \/ g_reg_mappings[j].end_addr <= g_reg_mappings[k].start_addr
            \/ g_reg_mappings[k].end_addr <= g_reg_mappings[j].start_addr

\* C5: the ranges of the address map are pairwise disjoint after any
\* sequence of add_register_mapping calls (an overlapping add is refused).
C5_RangesPairwiseDisjoint == PairwiseDisjoint

\* C6: a fault at an address in no registered range terminates the process
\* with a non-zero exit code; no plugin operation is called, no message id
\* is consumed, the context is not touched, and the process stays terminated.
C6_UnknownAddressFatal ==
    \* a step of the running driver that leaves a serviced fault is Access
    [][/\ (drv = "run" /\ trap' /= NoTrap /\ ~InSomeRange(trap'.addr)) =>
                /\ drv' = "exited"
                /\ exit_code' /= 0
                /\ trap'.plugin_op = "none"
                /\ UNCHANGED <<uart_priv, g_msg_id_counter, rip, gregs>>
       /\ drv = "exited" => drv' = "exited"]_vars

\* a fault at an unmapped address has been handled, with a non-empty map
C6_Witness ==
    /\ drv = "exited"
    /\ trap.insn /= <<>>
    /\ g_reg_mapping_count > 0
    /\ ~InSomeRange(trap.addr)

\* C7: after a fault at a mapped address on an instruction that is none of
\* the supported encodings, the access has read 0 into the accumulator and
\* the instruction pointer is past the instruction, so the driver continues.
C7_FallbackReadsZeroAndContinues ==
    (Serviced(0..255 \ {139, 137, 199}) /\ InSomeRange(trap.addr)) =>
        /\ rip = CodeBase + Len(trap.insn)
        /\ gregs["RAX"] = 0

(***************************************************************************)
(* Properties of the plugin registry (SpecReg).                            *)
(***************************************************************************)
\* C11: the names in the registry are pairwise distinct after any sequence
\* of register_plugin calls (a duplicate name is refused, not inserted).
C11_PluginNamesUnique ==
    \A j, k \in 1..g_plugin_count : j /= k => g_plugins[j] /= g_plugins[k]

Reverse(seq) == [k \in 1..Len(seq) |-> seq[Len(seq) + 1 - k]]

\* C12: cleanup_all calls cleanup once on every registered plugin, in the
\* reverse of the registration order.
C12_CleanupInReverseOrder ==
    [][sim_interface_cleanup => cleanup_log' = Reverse(g_plugins)]_vars

(***************************************************************************)
(* Properties of the UART plugin (SpecUart).                               *)
(***************************************************************************)
\* the value a read returned is 0 (the flag register: no bit set)
ReadsZero(priv, offset) ==
    LET ret == uart_reg_read(priv, uart_base_addr + offset).ret IN
    IF offset \in {8, 24} THEN ret = {} ELSE ret = 0

\* C13: right after reset(Assert), a read of the data, flag, control or
\* DMA-control register of the UART returns 0.
C13_ResetZeroesRegisters ==
    [][UartReset("RESET_ASSERT") =>
          \A o \in UartReadOffsets : ReadsZero(uart_priv', o)]_vars

\* C14: after reset(Assert) has returned, and until a worker is started
\* again, the plugin has no running worker and the worker appends no RX
\* byte and raises no RX interrupt.
C14_ResetStopsWorker ==
    [][/\ after_reset' => uart_thread'.pc = "none"
       /\ (after_reset /\ after_reset') =>
             /\ uart_thread'.appended = uart_thread.appended
             /\ uart_irqs'[6] = uart_irqs[6]]_vars

WorkerActive == uart_thread.pc /= "none"

\* C15: between operations, a worker is active exactly when the enable bit
\* of the control register is 1 and cleanup has not been called.
C15_WorkerIffEnabled ==
    uart_host \in {"idle", "cleaned"} =>
        (WorkerActive <=> (uart_priv.ctrl_reg % 2 = 1 /\ uart_host /= "cleaned"))

\* C16: a write to the data register is accepted, and raises the TX IRQ
\* (IRQ 5) exactly once when the enable bit of the control register is 1,
\* and no interrupt when it is 0.
C16_DataWriteRaisesTxIrq ==
    [][\A v \in UartValues, ok \in BOOLEAN :
          UartRegWrite(0, v, ok) =>
              /\ uart_ret'.ret = 0
              /\ uart_irqs'[6] = uart_irqs[6]
              /\ uart_irqs'[5] = uart_irqs[5]
                                 + (IF uart_priv.ctrl_reg % 2 = 1 THEN 1 ELSE 0)]_vars

\* C17: while the UART stays enabled, the k-th byte its worker appends
\* (k = 0, 1, ...) is 'A' + (k mod 26), and it is appended to an empty FIFO.
C17_RxAlphabetInOrder ==
    [][(uart_thread.steady /\ uart_thread'.appended = uart_thread.appended + 1) =>
          /\ uart_priv.rx_head = uart_priv.rx_tail
          /\ RxAt(uart_priv', uart_priv.rx_head) = 65 + (uart_thread.appended % 26)]_vars

\* the ready flags as the driver tests them: (status & UART_xX_READY) != 0
TxReady(priv) == priv.status_reg \cap UART_TX_READY /= {}
RxReady(priv) == priv.status_reg \cap UART_RX_READY /= {}

\* C18: a read of the data register with a non-empty FIFO returns the oldest
\* byte and removes it; when the FIFO becomes empty RX-ready is cleared and
\* TX-ready keeps its value.
C18_DataReadPopsFifo ==
    [][(UartRegRead(0) /\ uart_priv.rx_head /= uart_priv.rx_tail) =>
          /\ uart_ret'.ret = RxAt(uart_priv, uart_priv.rx_tail)
          /\ uart_priv'.rx_tail = (uart_priv.rx_tail + 1) % 256
          /\ uart_priv'.rx_head = uart_priv.rx_head
          /\ (uart_priv'.rx_head = uart_priv'.rx_tail) =>
                /\ ~RxReady(uart_priv')
                /\ TxReady(uart_priv') = TxReady(uart_priv)]_vars

\* C19: a read of the data register with an empty FIFO returns 0 and
\* changes neither the FIFO indices nor the flags (nor anything else of
\* the plugin's state).
C19_EmptyDataReadIsInert ==
    [][(UartRegRead(0) /\ uart_priv.rx_head = uart_priv.rx_tail) =>
          /\ uart_ret'.ret = 0
          /\ uart_priv' = uart_priv]_vars

\* the data register was read after the one byte received had been drained
C19_Witness ==
    /\ uart_ret.op = "reg_read"
    /\ uart_ret.address = uart_base_addr
    /\ uart_ret.ret = 0
    /\ uart_thread.appended = 1
    /\ uart_priv.rx_head = 1
    /\ uart_priv.rx_tail = 1
    /\ uart_ops = 3

\* C20: a write to a read-only register (FR, RIS, MIS) succeeds and changes
\* no plugin state.
C20_ReadOnlyWriteIgnored ==
    [][\A o \in {24, 60, 64}, v \in UartValues, ok \in BOOLEAN :
          UartRegWrite(o, v, ok) =>
              /\ uart_ret'.ret = 0
              /\ uart_priv' = uart_priv]_vars
(***************************************************************************)
(* Claims about the DMA plugin (checked under SpecDma).                    *)
(***************************************************************************)
\* the last operation was a read of a channel register
ReadBack == dma_ret.op = "reg_read" /\ dma_ret.address \in DmaStored

Completes(i) ==
    /\ dma_xfer'[i].sum > dma_xfer[i].sum
    /\ dma_priv'.channels[i].size = 0

\* trigger_interrupt(module, irq_num) calls in log
IrqCalls(log, module, irq_num) ==
    Cardinality({k \in 1..Len(log) : log[k] = [module |-> module, irq_num |-> irq_num]})

\* trigger_interrupt calls in log under any other module name
ForeignCalls(log) == Cardinality({k \in 1..Len(log) : log[k].module /= "dma0"})

\* C22: when a tick (worker or clock) brings an active channel's size to 0,
\* the enable bit is cleared, the done flag is set, and IRQ 10 + i is raised
\* on the instance name exactly when the config has the interrupt-enable bit
C22_CompletionRaisesIrqIffEnabled ==
    [][\A i \in DmaChannels :
          Completes(i) =>
            /\ ~BitSet(dma_priv'.channels[i].ctrl, 0)
            /\ BitSet(dma_priv'.channels[i].status, 1)
            /\ IrqCalls(dma_irqs', "dma0", 10 + i) - IrqCalls(dma_irqs, "dma0", 10 + i)
                   = IF BitSet(dma_priv.channels[i].config, 8) THEN 1 ELSE 0
            /\ ForeignCalls(dma_irqs') = ForeignCalls(dma_irqs)]_vars
Min(a, b) == IF a < b THEN a ELSE b

\* C23: for a channel enabled with size n > 0 and not rewritten since, each
\* tick moves min(remaining, 512) bytes, the size never underflows, and the
\* amounts moved add up to n at completion
C23_TransferSumsToSize ==
    \A ch \in DmaChannels :
        dma_xfer[ch].clean /\ dma_xfer[ch].n > 0 =>
            /\ dma_priv.channels[ch].size >= 0
            /\ dma_xfer[ch].sum + dma_priv.channels[ch].size = dma_xfer[ch].n
            /\ dma_xfer[ch].tick /= "none" =>
                    dma_xfer[ch].amount = Min(dma_xfer[ch].before, 512)
\* channel ch was enabled with both increment flags (DMA_CONFIG_INC_SRC,
\* DMA_CONFIG_INC_DST) on the driver's buffers, was not rewritten, and its
\* done flag is set
CopyDone(ch) ==
    LET c == dma_priv.channels[ch] IN
    /\ dma_xfer[ch].clean
    /\ dma_xfer[ch].n \in 1..MaxBuf
    /\ dma_xfer[ch].sum = dma_xfer[ch].n
    /\ BitSet(c.status, 1)
    /\ BitSet(c.config, 4) /\ BitSet(c.config, 5)
    /\ c.src_addr = SrcBuf /\ c.dst_addr = DstBuf

\* C24: once a transfer of n bytes with both increment flags is reported
\* complete, the first n bytes at dst equal the first n bytes at src
C24_DestinationEqualsSource ==
    \A ch \in DmaChannels :
        CopyDone(ch) =>
            \A k \in 0..(dma_xfer[ch].n - 1) : mem[DstBuf + k] = mem[SrcBuf + k]
\* the value a read of the interrupt-status register returns
IntStatusRead(priv) ==
    dma_reg_read(priv, dma_base_addr + (DMA_INT_STATUS_REG - DMA_BASE_ADDR))

\* this step is a write of value to the interrupt-clear register
IntClearWrite(value) ==
    DmaRegWrite(dma_base_addr + (DMA_INT_CLEAR_REG - DMA_BASE_ADDR), value)

\* C26: once channel i completes, the interrupt-status register reads with
\* bit i set; a bit that reads set goes away only by a write to the
\* interrupt-clear register with that bit set (or by a reset); such a write
\* makes the bit read 0 and leaves every other bit as it read before
C26_IntStatusLatchesUntilCleared ==
    [][/\ \A i \in DmaChannels :
            Completes(i) => BitSet(IntStatusRead(dma_priv'), i)
       /\ \A i \in DmaChannels :
            BitSet(IntStatusRead(dma_priv), i) /\ ~BitSet(IntStatusRead(dma_priv'), i) =>
                \/ \E v \in DmaValues : BitSet(v, i) /\ IntClearWrite(v)
                \/ dma_host = "reset_join"
       /\ \A v \in DmaValues :
            IntClearWrite(v) =>
                \A i \in DmaChannels :
                    BitSet(IntStatusRead(dma_priv'), i) <=>
                        (BitSet(IntStatusRead(dma_priv), i) /\ ~BitSet(v, i))]_vars

\* this step is a register write that stored value with its enable bit set
\* into the control register of channel ch
EnableWrite(ch) ==
    /\ dma_ops' = dma_ops + 1
    /\ dma_ret'.op = "reg_write"
    /\ dma_ret'.address = dma_channel_base_addr + ch * DMA_CH_OFFSET
    /\ dma_ret'.value % 2 = 1

\* C27: a write to a channel's control register with the enable bit set
\* sets the channel's size to 1024 when the size is 0 and leaves the size
\* unchanged when it is not 0
C27_EnableDefaultsZeroSize ==
    [][\A ch \in DmaChannels :
          EnableWrite(ch) =>
              dma_priv'.channels[ch].size =
                  IF dma_priv.channels[ch].size = 0 THEN 1024
                  ELSE dma_priv.channels[ch].size]_vars

\* channel 1 was enabled after its size had been written as 0
C27_Witness ==
    /\ dma_ret.op = "reg_write"
    /\ dma_ret.address = dma_channel_base_addr + 1 * DMA_CH_OFFSET
    /\ dma_ret.value = 1
    /\ dma_written.vals[dma_channel_base_addr + 1 * DMA_CH_OFFSET + 16] = 0
    /\ dma_priv.channels[1].size = 1024
    /\ dma_priv.channels[1].ctrl = 1

(***************************************************************************)
(* Claims about the plugins' life cycle (checked under SpecLife).          *)
(***************************************************************************)
\* this step is a call of uart_cleanup, of dma_cleanup
UartCleanupCall == uart_ops' = uart_ops + 1 /\ uart_ret'.op = "cleanup"
DmaCleanupCall == dma_ops' = dma_ops + 1 /\ dma_ret'.op = "cleanup"

\* C28: a cleanup of the UART or DMA plugin called after a cleanup has
\* freed the plugin's data joins no thread and frees nothing: the plugin
\* stays cleaned and its data, its thread and its interrupts are unchanged
C28_SecondCleanupIsInert ==
    [][/\ (UartCleanupCall /\ uart_host = "cleaned") =>
             /\ uart_host' = "cleaned"
             /\ UNCHANGED <<uart_priv, uart_thread, uart_irqs>>
       /\ (DmaCleanupCall /\ dma_host = "cleaned") =>
             /\ dma_host' = "cleaned"
             /\ UNCHANGED <<dma_priv, dma_thread, dma_irqs>>]_vars

\* both plugins were cleaned up twice, their monitor threads having run
C28_Witness ==
    /\ uart_host = "cleaned" /\ uart_ret.op = "cleanup" /\ uart_ret.again
    /\ dma_host = "cleaned" /\ dma_ret.op = "cleanup" /\ dma_ret.again
    /\ dma_thread.created
    /\ uart_irqs[6] > 0

(***************************************************************************)
(* Claims about the DMA driver (checked under SpecDrv).                    *)
(***************************************************************************)
\* this step is the dma_start_transfer(c) of a configure-then-start
\* sequence: the driver's previous call was a dma_configure_channel(c, ...)
\* that returned 0
ConfigureThenStart(c) ==
    /\ drv_ret.op = "dma_configure_channel" /\ drv_ret.channel = c /\ drv_ret.ret = 0
    /\ drv_ops' = drv_ops + 1
    /\ drv_ret'.op = "dma_start_transfer" /\ drv_ret'.channel = c /\ drv_ret'.ret = 0

\* C25: the plugin decodes the channel offsets as the driver assigns them,
\* so the driver's configure-then-start sequence for channel c leaves the
\* plugin's channel c with the configured source, destination, size and
\* config and with its enable bit set
C25_ConfigureThenStartProgramsChannel ==
    [][\A c \in DmaChannels :
          ConfigureThenStart(c) =>
              /\ dma_priv'.channels[c].src_addr = drv_cfg[c].src_addr
              /\ dma_priv'.channels[c].dst_addr = drv_cfg[c].dst_addr
              /\ dma_priv'.channels[c].size = drv_cfg[c].size
              /\ dma_priv'.channels[c].config = config_reg(drv_cfg[c])
              /\ BitSet(dma_priv'.channels[c].ctrl, 0)]_vars

\* C29: a HAL_DMA_PollForTransfer called while a transfer is ongoing (the
\* handle BUSY) that has returned without a transfer error has returned
\* HAL_TIMEOUT or HAL_OK
C29_PollReturnsTimeoutOrSuccess ==
    (/\ drv_ret.op = "HAL_DMA_PollForTransfer"
     /\ drv_poll.pc = "none"
     /\ drv_ret.was = "HAL_DMA_STATE_BUSY"
     /\ g_dma_handles[drv_ret.channel].ErrorCode /= HAL_DMA_ERROR_TE)
        => drv_ret.ret \in {HAL_OK, HAL_TIMEOUT}

\* this step is a call of HAL_DMA_Start or HAL_DMA_Start_IT on the handle
\* of channel ch
StartCall(ch) ==
    /\ drv_ops' = drv_ops + 1
    /\ drv_ret'.op \in {"HAL_DMA_Start", "HAL_DMA_Start_IT"}
    /\ drv_ret'.channel = ch

\* C30: HAL_DMA_Start and HAL_DMA_Start_IT on a handle that is not READY
\* return HAL_BUSY and leave the handle's State and the channel's registers
\* unchanged; on a READY handle they return HAL_OK and the State becomes
\* BUSY
C30_StartOnBusyHandleReturnsBusy ==
    [][\A ch \in DmaChannels :
          StartCall(ch) =>
              IF g_dma_handles[ch].State /= "HAL_DMA_STATE_READY" THEN
                  /\ drv_ret'.ret = HAL_BUSY
                  /\ g_dma_handles'[ch].State = g_dma_handles[ch].State
                  /\ dma_priv'.channels[ch] = dma_priv.channels[ch]
              ELSE
                  /\ drv_ret'.ret = HAL_OK
                  /\ g_dma_handles'[ch].State = "HAL_DMA_STATE_BUSY"]_vars

\* HAL_DMA_Start was called on a handle that an earlier start had made BUSY
C30_Witness ==
    /\ drv_ret.op = "HAL_DMA_Start"
    /\ drv_ret.was = "HAL_DMA_STATE_BUSY"
    /\ drv_ret.ret = HAL_BUSY
    /\ g_dma_handles[drv_ret.channel].State = "HAL_DMA_STATE_BUSY"

(***************************************************************************)
(* claims about the driver's channel table                                  *)
(***************************************************************************)
\* a call of the driver function op returns in this step
DrvReturns(op) == drv_ops' = drv_ops + 1 /\ drv_ret'.op = op

\* the channels of the table that are not allocated
FreeChannels == {c \in DOMAIN g_dma_channels : ~g_dma_channels[c].allocated}

\* C31: while the driver is initialised, dma_allocate_channel returns a
\* channel in 0..7 that was free and marks it allocated, or -1 (and changes
\* nothing) when all 8 are allocated; an entry becomes allocated only by
\* being returned from dma_allocate_channel and stops being allocated only
\* when dma_free_channel on it returns 0; dma_is_channel_available(c)
\* answers false exactly while c is allocated
C31_AllocateNeverReturnsAllocated ==
    [][/\ DrvReturns("dma_allocate_channel") =>
            IF FreeChannels = {}
            THEN drv_ret'.ret = -1 /\ g_dma_channels' = g_dma_channels
            ELSE /\ drv_ret'.ret \in FreeChannels
                 /\ drv_ret'.ret \in 0..7
                 /\ g_dma_channels'[drv_ret'.ret].allocated
                 /\ \A c \in DOMAIN g_dma_channels \ {drv_ret'.ret} :
                        g_dma_channels'[c] = g_dma_channels[c]
       /\ DrvReturns("dma_is_channel_available") =>
            \A c \in DOMAIN g_dma_channels :
                drv_ret'.channel = c =>
                    (drv_ret'.ret = 0 <=> g_dma_channels[c].allocated)
       /\ \A c \in DOMAIN g_dma_channels :
            /\ (~g_dma_channels[c].allocated /\ g_dma_channels'[c].allocated) =>
                  DrvReturns("dma_allocate_channel") /\ drv_ret'.ret = c
            /\ (g_dma_channels[c].allocated /\ ~g_dma_channels'[c].allocated) =>
                  /\ DrvReturns("dma_free_channel")
                  /\ drv_ret'.channel = c /\ drv_ret'.ret = 0
            /\ (DrvReturns("dma_free_channel") /\ drv_ret'.channel = c
                    /\ g_dma_channels[c].allocated) =>
                  drv_ret'.ret = 0 /\ ~g_dma_channels'[c].allocated]_vars

\* with all 8 channels allocated, dma_allocate_channel has returned -1
C31_Witness ==
    /\ drv_ret.op = "dma_allocate_channel"
    /\ drv_ret.ret = -1
    /\ \A c \in DrvChannels : g_dma_channels[c].allocated

(***************************************************************************)
(* claims about the workers and the host together                           *)
(***************************************************************************)
\* the value the driver reads at offset of channel i's register window
ChannelRead(priv, i, offset) ==
    dma_reg_read(priv, dma_channel_base_addr + i * DMA_CH_OFFSET + offset)

\* C32: when a worker raises an IRQ for a state change, a driver read made
\* at that moment observes every mutation of the change.  UART synthetic
\* RX (IRQ 6): the flag register reads RX-ready and the data register
\* returns the byte just stored.  DMA completion of channel i (IRQ 10 + i):
\* the control register reads with the enable bit clear, the status
\* register with the done bit set, and the interrupt-status register with
\* bit i set.
C32_MutationsVisibleAtIrq ==
    [][/\ (uart_thread.pc = "append" /\ uart_irqs'[6] > uart_irqs[6]) =>
            /\ uart_reg_read(uart_priv', uart_base_addr + 24).ret
                    \cap UART_RX_READY /= {}
            /\ uart_reg_read(uart_priv', uart_base_addr).ret
                    = RxByte(uart_thread.cycle_count)
       /\ \A i \in DmaChannels :
            (dma_thread.pc = "scan" /\
             IrqCalls(dma_irqs', "dma0", 10 + i) > IrqCalls(dma_irqs, "dma0", 10 + i)) =>
                /\ ~BitSet(ChannelRead(dma_priv', i, 0), 0)
                /\ BitSet(ChannelRead(dma_priv', i, 4), 1)
                /\ BitSet(IntStatusRead(dma_priv'), i)]_vars

\* no register access and no worker step is in progress
UartQuiescent == uart_host = "idle" /\ uart_thread.pc \in {"none", "top"}

\* C33: whenever no UART register access and no worker step is in progress,
\* RX-ready is set if and only if the RX FIFO is non-empty, under every
\* interleaving of the worker's append with reads of the data register
C33_RxReadyIffFifoNonEmpty ==
    UartQuiescent =>
        (RxReady(uart_priv) <=> uart_priv.rx_head /= uart_priv.rx_tail)

\* the worker's pass over channel i ends in this step
TickEnds(i) ==
    /\ dma_thread.i = i
    /\ dma_thread.pc \in {"check", "complete"}
    /\ dma_thread'.pc \in {"scan", "top"}

\* since the pass over channel i began the host made one call, a write to
\* the control or the size register of channel i
OneWriteDuring(i) ==
    /\ dma_ops = dma_thread.ops0 + 1
    /\ dma_ret.op = "reg_write"
    /\ dma_ret.address \in {dma_channel_base_addr + i * DMA_CH_OFFSET + o : o \in {0, 16}}

\* C34: a worker tick on channel i and a driver write to the channel's size
\* or control register leave the channel as one of the two sequential
\* orders of the two leaves it
C34_TickAndWriteSerialise ==
    [][\A i \in DmaChannels :
          (TickEnds(i) /\ OneWriteDuring(i)) =>
              LET p0 == dma_thread.snap
                  a == dma_ret.address
                  v == dma_ret.value
                  tick_write == dma_reg_write(monitor_step(p0, i).priv, a, v)
                  write_tick == monitor_step(dma_reg_write(p0, a, v), i).priv
              IN  dma_priv'.channels[i] \in
                      {tick_write.channels[i], write_tick.channels[i]}]_vars

(***************************************************************************)
(* more claims about the interrupt path                                     *)
(***************************************************************************)
\* the handler invocations thread t has begun and not finished
RunningHandlers(t) ==
    {n \in 1..Len(sig_frames[t]) : sig_frames[t][n].pc = "running"}

\* C35: on a single thread no handler invocation begins while the handler
\* invocation of an earlier interrupt is still running, whether the two
\* interrupts arrive as the same signal or as different signals
C35_HandlersDoNotNest ==
    \A t \in Threads : Cardinality(RunningHandlers(t)) <= 1

(***************************************************************************)
(* more claims about the trap path                                          *)
(***************************************************************************)
\* C36: every request gets an id strictly greater than the id of every
\* request constructed before it, the first one 1; no two requests share
\* an id, on whichever driver thread the fault is serviced
C36_RequestIdsStrictlyIncrease ==
    /\ msg_ids /= <<>> => msg_ids[1] = 1
    /\ \A i, j \in 1..Len(msg_ids) : i < j => msg_ids[i] < msg_ids[j]

(***************************************************************************)
(* claims about the life of the worker threads                              *)
(***************************************************************************)
\* the DMA monitor thread was started, has exited and has been joined: the
\* thread exits only after reset or cleanup cleared simulation_running,
\* and both join before they return
DmaWorkerJoined ==
    dma_host = "idle" /\ dma_thread.created /\ dma_thread.pc = "none"

\* C37: over control-register writes, resets and cleanups, an instance has
\* at most one worker thread at a time (a worker is started only when none
\* exists), every pthread_join is made on a worker not joined before, and
\* once cleanup has freed the plugin's state no worker is running
C37_OneWorkerJoinedOnce ==
    [][/\ (~uart_priv.simulation_running /\ uart_priv'.simulation_running) =>
            uart_thread.pc = "none" /\ uart_thread'.pc = "top"
       /\ (uart_host = "idle" /\ uart_host' \in {"join", "cleanup_join"}) =>
            uart_thread.pc /= "none"
       /\ (dma_host = "idle" /\ dma_host' \in {"reset_join", "cleanup_join", "crashed"}) =>
            ~DmaWorkerJoined
       /\ uart_host' = "cleaned" => uart_thread'.pc = "none"
       /\ dma_host' = "cleaned" => dma_thread'.pc = "none"]_vars

\* the host has made its last call and is in none: no further write hits
\* any channel
HostDone == dma_ops = MaxDmaOps /\ dma_host = "idle"

ChannelEnabled(ch) ==
    BitSet(dma_priv.channels[ch].ctrl, 0) /\ dma_priv.channels[ch].size > 0

ChannelDone(ch) ==
    ~BitSet(dma_priv.channels[ch].ctrl, 0) /\ BitSet(dma_priv.channels[ch].status, 1)

\* C38: a channel of the registered plugin that has its enable bit set with
\* size n > 0, in a state reached through register writes and resets, and
\* that no further write hits, reaches done with its enable bit cleared
\* (the claim bounds this by ceil(n / 512) worker ticks; that it happens at
\* all is what is stated here)
C38_EnabledChannelCompletes ==
    \A ch \in DmaChannels :
        (HostDone /\ ChannelEnabled(ch)) ~> ChannelDone(ch)

(***************************************************************************)
(* claims about the DMA interrupt from the plugin to the driver             *)
(***************************************************************************)
\* every queued signal has been delivered and every handler has returned
IrqQuiet ==
    /\ \A sig \in DOMAIN sig_pending : sig_pending[sig] = 0
    /\ \A t \in Threads : sig_frames[t] = <<>>

\* C39: with main.c's signal table installed and the driver initialised,
\* the completion of a channel c of dma0 that has interrupts enabled gets
\* the driver's DMA interrupt handler (registered on IRQ 8) invoked: once
\* the signals are delivered the handler has been invoked at least once
\* (the claim goes on to the callback of channel c being called with DONE
\* from that invocation)
C39_CompletionInvokesDriverHandler ==
    \A c \in DmaChannels :
        (/\ IrqQuiet
         /\ IrqCalls(dma_irqs, "dma0", 10 + c) > 0
         /\ BitSet(dma_priv.channels[c].config, 8)) => invoked[8] > 0

\* C40: when the init of a plugin that is not yet registered returns an
\* error, register_plugin returns an error and the plugin is not left in
\* the registry: find_plugin for its name finds nothing afterwards, so
\* handle_sim_message reaches no operation of that plugin.
C40_FailedInitNotRegistered ==
    [][\A name \in PluginNames :
          (/\ register_plugin(name, FALSE)
           /\ g_plugin_count < MAX_PLUGINS
           /\ ~find_plugin(name))
          => (/\ rv' = -1
              /\ ~find_plugin(name)'
              /\ \A type \in {MSG_REG_READ, MSG_REG_WRITE} :
                    handle_sim_message([module |-> name, type |-> type,
                                        address |-> 0, value |-> 0])'.plugin_op = "none")]_vars


====
